---------------------------- MODULE Spec2Model ----------------------------
(***************************************************************************)
(* Turn-taking state machine of the voice assistant:                       *)
(*   - the Turn Pipeline   (workflow.py, EnhancedAIAssistantWorkflow)      *)
(*   - the Session Driver  (chat_manager.py, EnhancedChatManager)          *)
(*   - the Conversation Surface's entry points (ui_components.py)          *)
(* Texts are TLA+ strings; a regular expression is modelled by the search  *)
(* it performs on the text.                                                *)
(***************************************************************************)
EXTENDS Integers, Sequences, FiniteSets, TLC

(***************************************************************************)
(* Bounds of the model.                                                    *)
(***************************************************************************)
\* generators (page loads) consuming continuous_audio_processing
NumConsumers == 2
\* calls of process_audio_cycle, per session with every consumer and command
MaxCycles == 2
\* out-of-band commands issued by the Conversation Surface, per session
MaxCommands == 1
\* calls of process_audio_cycle, per session followed for its retry counter
RetryMaxCycles == 4
\* exceptions raised in a loop iteration, per session followed for its retry
\* counter
RetryMaxThrows == 3
\* calls of process_audio_cycle, per session of one consumer
SeqMaxCycles == 3
\* exceptions raised in a loop iteration, per session of one consumer
SeqMaxThrows == 3
\* calls of process_audio_cycle, per session with every outcome
TurnMaxCycles == 2
\* calls of process_audio_cycle, per session with every kind of utterance
SaidMaxCycles == 1
\* manual tool calls, per session with every kind of utterance
SaidMaxCommands == 1
\* calls of process_audio_cycle, per session of one consumer and the commands
CmdMaxCycles == 1
\* out-of-band commands, per session of one consumer
CmdMaxCommands == 2
\* calls of process_audio_cycle, per session with one operation at a time
SerialMaxCycles == 2
\* commands, per session with one operation at a time
SerialMaxCommands == 1

(***************************************************************************)
(* Text helpers: str.lower(), the `in` operator, re.search.                *)
(***************************************************************************)
None == "<None>"

UpperCase == <<"A","B","C","D","E","F","G","H","I","J","K","L","M",
               "N","O","P","Q","R","S","T","U","V","W","X","Y","Z">>
LowerCase == <<"a","b","c","d","e","f","g","h","i","j","k","l","m",
               "n","o","p","q","r","s","t","u","v","w","x","y","z">>

LowerChar(ch) ==
    IF \E i \in 1..26 : UpperCase[i] = ch
    THEN LowerCase[CHOOSE i \in 1..26 : UpperCase[i] = ch]
    ELSE ch

\* str.lower(): the characters of s, one by one
Lower(s) ==
    LET lowered[i \in 0..Len(s)] ==
            IF i = 0 THEN "" ELSE lowered[i - 1] \o LowerChar(SubSeq(s, i, i))
    IN  lowered[Len(s)]

\* Python's `sub in s`
Contains(s, sub) ==
    \E i \in 1..(Len(s) - Len(sub) + 1) : SubSeq(s, i, i + Len(sub) - 1) = sub

\* re.search(pattern, text) for the patterns of the intent table.  A pattern
\* is a sequence of segments with ".*" between them; a segment is the set of
\* the strings it matches (one string for a literal, the characters of a
\* class for "\d+" or "[\+\-\*\/]").
RECURSIVE SearchFrom(_, _, _)
SearchFrom(pattern, text, from) ==
    IF pattern = <<>> THEN TRUE
    ELSE \E alt \in pattern[1] :
           \E i \in from..(Len(text) - Len(alt) + 1) :
              /\ SubSeq(text, i, i + Len(alt) - 1) = alt
              /\ SearchFrom(Tail(pattern), text, i + Len(alt))

Search(pattern, text) == SearchFrom(pattern, text, 1)

Digit == {"0","1","2","3","4","5","6","7","8","9"}
Operator == {"+","-","*","/"}

(***************************************************************************)
(* Intent Classifier.                                                      *)
(***************************************************************************)
Lit(s) == <<{s}>>

\* the labels with search declared before weather
IntentOrder_search_first ==
    <<"vision", "search", "weather", "news", "time", "system", "calculator", "files">>

\* the dict keeps insertion order
IntentOrder ==
    <<"vision", "weather", "search", "news", "time", "system", "calculator", "files">>

intent_patterns ==
    [vision |-> <<Lit("what do you see"), <<{"analyze"}, {"image"}>>, Lit("look at"),
                  <<{"describe"}, {"image"}>>, <<{"what"}, {"in"}, {"image"}>>,
                  Lit("camera"), Lit("webcam"), Lit("picture"), Lit("photo")>>,
     weather |-> <<Lit("weather"), Lit("temperature"), Lit("forecast"), Lit("rain"),
                   Lit("sunny"), Lit("cloudy"), Lit("hot"), Lit("cold"), Lit("climate")>>,
     search |-> <<Lit("search"), Lit("look up"), <<{"find"}, {"information"}>>,
                  Lit("google"), Lit("what is"), Lit("tell me about"), Lit("research")>>,
     news |-> <<Lit("news"), Lit("headlines"), Lit("current events"),
                <<{"what"}, {"happening"}>>, Lit("latest news")>>,
     time |-> <<Lit("time"), Lit("what time"), Lit("current time"), Lit("clock"),
                Lit("date")>>,
     system |-> <<Lit("system info"), Lit("computer"), Lit("cpu"), Lit("memory"),
                  Lit("disk space"), Lit("performance")>>,
     calculator |-> <<Lit("calculate"), Lit("math"), <<Digit, Operator, Digit>>,
                      Lit("compute"), Lit("addition"), Lit("subtract"),
                      Lit("multiply"), Lit("divide")>>,
     files |-> <<Lit("list files"), Lit("show files"), Lit("directory"),
                 Lit("folder contents"), Lit("what files")>>]

IntentMatches(intent, text) ==
    \E k \in 1..Len(intent_patterns[intent]) : Search(intent_patterns[intent][k], text)

FirstMatch(user_input_lower) ==
    LET hits == {i \in 1..Len(IntentOrder) : IntentMatches(IntentOrder[i], user_input_lower)}
    IN  IF hits = {} THEN None
        ELSE IntentOrder[CHOOSE i \in hits : \A j \in hits : i <= j]

_detect_intent(user_input) ==
    CHOOSE intent \in {FirstMatch(user_input_lower) :
                           user_input_lower \in {Lower(user_input)}} : TRUE

(***************************************************************************)
(* External collaborators.  A call either returns a text or raises with a  *)
(* message: [raised |-> BOOLEAN, value |-> text].                          *)
(***************************************************************************)
Returned(v) == [raised |-> FALSE, value |-> v]
Raised(m) == [raised |-> TRUE, value |-> m]

\* speech_to_text.record_audio: the whole body is inside try/except Exception,
\* the handler logs and the function returns normally either way; `mic` is
\* what the microphone does during the recording
record_audio(mic) ==
    IF mic = "speech" THEN Returned("saved") ELSE Returned("logged")

\* The outcomes the collaborators may have in a turn:
\*   mic        the microphone (speech_to_text.record_audio)
\*   transcribe transcribe_audio, which has no handler of its own
\*   tool       the tool behind tools.execute_tool, which returns a text on
\*              every path
\*   agent      ai_agents.ask_agent
\*   primary    text_to_speech_with_eleven_lab
\*   secondary  text_to_speech_with_gtts
AllOutcomes ==
    [mic |-> {"speech", "timeout"},
     transcribe |-> {Returned("Hello there"), Returned("Goodbye"),
                     Returned("What's the weather in Paris?"), Returned(""),
                     Raised("file not found")},
     tool |-> {Returned("Sunny, 21 C"), Returned("Weather API error: 503")},
     agent |-> {Returned("Here you go"), Returned(""), Raised("model overloaded")},
     primary |-> {Returned("played"), Raised("Quota Exceeded"), Raised("Connection reset")},
     secondary |-> {Returned("played"), Raised("gTTS unreachable")}]

\* a smaller choice for the sessions of several turns
SomeOutcomes ==
    [mic |-> {"speech"},
     transcribe |-> {Returned("GOODBYE for now"), Returned("What's the weather in Paris?"),
                     Raised("file not found")},
     tool |-> {Returned("Sunny, 21 C")},
     agent |-> {Returned("Here you go"), Raised("model overloaded")},
     primary |-> {Returned("played"), Raised("Quota Exceeded")},
     secondary |-> {Returned("played"), Raised("gTTS unreachable")}]

\* what a user may say, for the turns that look at the text: utterances of
\* every intent, of several intents at once, of none, with capitals, with
\* and without the words and the runs the extraction rules look for
Utterances ==
    {"Hello there",
     "What do you see in the weather photo",
     "Search the weather news",
     "What is the time",
     "Latest news about the CPU",
     "Show files on my computer",
     "List files in the folder",
     "ANALYZE this IMAGE",
     "What's the weather in Paris?",
     "Is it cold today",
     "Calculate 25 * 4 + 10",
     "Please calculate 2+2",
     "Compute the sum",
     "Multiply 3 by 40+2",
     "Math",
     "Goodbye",
     "Goodbye, what is the time"}

SaidOutcomes ==
    [mic |-> {"speech"},
     transcribe |-> {Returned(said) : said \in Utterances},
     tool |-> {Returned("Sunny, 21 C"), Raised("connection pool is closed")},
     agent |-> {Returned("Here you go"), Raised("model overloaded")},
     primary |-> {Returned("played")},
     secondary |-> {Returned("played")}]

(***************************************************************************)
(* Turn State (AgentState) and the stages of the Turn Pipeline.  A stage   *)
(* maps a state and the outcomes of the calls it may make to the new state *)
(* and the list of external calls it made.                                 *)
(***************************************************************************)
Truthy(x) == x # None /\ x # ""

\* a value in an f-string
Formatted(value) == IF value = None THEN "None" ELSE value

\* create_initial_state dropping the history it is handed
create_initial_state_blank(history) ==
    [messages |-> <<>>,
     chat_history |-> <<>>,
     audio_file |-> "audio_question.mp3",
     current_user_input |-> "",
     current_response |-> "",
     error_message |-> None,
     session_active |-> TRUE,
     processing_audio |-> FALSE,
     detected_intent |-> None,
     tool_results |-> None,
     needs_tool_execution |-> FALSE]

create_initial_state(history) ==
    [messages |-> <<>>,
     chat_history |-> history,
     audio_file |-> "audio_question.mp3",
     current_user_input |-> "",
     current_response |-> "",
     error_message |-> None,
     session_active |-> TRUE,
     processing_audio |-> FALSE,
     detected_intent |-> None,
     tool_results |-> None,
     needs_tool_execution |-> FALSE]

Result(s, calls) == [state |-> s, io |-> calls]

\* one external call: what was called, with what, and how it ended
Call(name, arg, outcome) == [call |-> name, arg |-> arg, out |-> outcome]

_audio_recording_node(state, mic) ==
    LET r == record_audio(mic)
        calls == <<Call("record_audio", state.audio_file, r)>>
    IN  IF ~r.raised
        THEN Result([state EXCEPT !.processing_audio = TRUE, !.error_message = None], calls)
        ELSE Result([state EXCEPT !.error_message = "Audio recording error: " \o r.value,
                                  !.processing_audio = FALSE], calls)

\* _transcription_node not looking for the exit phrase
_transcription_node_staying(state, tr) ==
    IF state.processing_audio
    THEN LET calls == <<Call("transcribe_audio", state.audio_file, tr)>>
         IN  IF tr.raised
             THEN Result([state EXCEPT !.error_message = "Transcription error: " \o tr.value],
                         calls)
             ELSE Result([state EXCEPT !.current_user_input = tr.value,
                                       !.messages = Append(@, <<"human", tr.value>>)],
                         calls)
    ELSE Result(state, <<>>)

\* _transcription_node with the exit phrase looked for in the text as heard,
\* not in its lowercase form
_transcription_node_as_heard(state, tr) ==
    IF state.processing_audio
    THEN LET calls == <<Call("transcribe_audio", state.audio_file, tr)>>
         IN  IF tr.raised
             THEN Result([state EXCEPT !.error_message = "Transcription error: " \o tr.value],
                         calls)
             ELSE LET heard == [state EXCEPT !.current_user_input = tr.value,
                                             !.messages = Append(@, <<"human", tr.value>>)]
                  IN  IF Contains(tr.value, "goodbye")
                      THEN Result([heard EXCEPT !.session_active = FALSE], calls)
                      ELSE Result(heard, calls)
    ELSE Result(state, <<>>)

_transcription_node(state, tr) ==
    IF state.processing_audio
    THEN LET calls == <<Call("transcribe_audio", state.audio_file, tr)>>
         IN  IF tr.raised
             THEN Result([state EXCEPT !.error_message = "Transcription error: " \o tr.value],
                         calls)
             ELSE LET heard == [state EXCEPT !.current_user_input = tr.value,
                                             !.messages = Append(@, <<"human", tr.value>>)]
                  IN  IF Contains(Lower(tr.value), "goodbye")
                      THEN Result([heard EXCEPT !.session_active = FALSE], calls)
                      ELSE Result(heard, calls)
    ELSE Result(state, <<>>)

\* _intent_detection_node asking for a tool whenever there is an input
_intent_detection_node_eager(state) ==
    LET user_input == state.current_user_input
    IN  IF user_input # ""
        THEN LET detected_intent == _detect_intent(user_input)
             IN  Result([state EXCEPT !.detected_intent = detected_intent,
                                      !.needs_tool_execution = TRUE],
                        <<>>)
        ELSE Result(state, <<>>)

_intent_detection_node(state) ==
    LET user_input == state.current_user_input
    IN  IF user_input # ""
        THEN LET detected_intent == _detect_intent(user_input)
             IN  Result([state EXCEPT !.detected_intent = detected_intent,
                                      !.needs_tool_execution = (detected_intent # None)],
                        <<>>)
        ELSE Result(state, <<>>)

(***************************************************************************)
(* Regular expressions with one capture group, matched as Python's re does *)
(* it: leftmost start, greedy quantifiers, backtracking in priority order. *)
(* A pattern is a sequence of elements:                                    *)
(*   L(s)          the literal s                                           *)
(*   Many(cls, n)  at least n characters of the class, greedy              *)
(*   Opt(body)     an optional group, greedy                               *)
(*   Alt(bodies)   alternatives, tried in order                            *)
(*   Open, Close   the parentheses of group 1                              *)
(***************************************************************************)
Whitespace == {" ", "\t", "\n", "\r", "\f"}
Letter == {LowerCase[i] : i \in 1..26} \cup {UpperCase[i] : i \in 1..26}

Class(chars) == [negated |-> FALSE, chars |-> chars]
AnyChar == [negated |-> TRUE, chars |-> {"\n"}]

L(s) == [kind |-> "lit", s |-> s]
Many(cls, n) == [kind |-> "many", cls |-> cls, min |-> n]
Opt(body) == [kind |-> "opt", body |-> body]
Alt(bodies) == [kind |-> "alt", bodies |-> bodies]
Open == [kind |-> "open"]
Close == [kind |-> "close"]

NoMatch == [ok |-> FALSE, from |-> 0, to |-> 0, end |-> 0]

InClass(ch, cls) == IF cls.negated THEN ch \notin cls.chars ELSE ch \in cls.chars

\* the length of the longest run of characters of the class from pos on
RECURSIVE Span(_, _, _)
Span(text, pos, cls) ==
    IF pos <= Len(text) /\ InClass(SubSeq(text, pos, pos), cls)
    THEN 1 + Span(text, pos + 1, cls)
    ELSE 0

NoGroup == [from |-> 0, to |-> 0]

\* Match: the match of the elements k, k+1, ... of the pattern at position
\* pos.  Longest: the same with element k, a greedy run, taking n characters
\* or, failing that, fewer.  (A set of one element binds a value once.)
RECURSIVE Match(_, _, _, _, _)
RECURSIVE Longest(_, _, _, _, _, _)
Longest(pattern, k, text, pos, group, n) ==
    IF n < pattern[k].min THEN NoMatch
    ELSE CHOOSE match \in
             {IF taken.ok THEN taken ELSE Longest(pattern, k, text, pos, group, n - 1) :
                  taken \in {Match(pattern, k + 1, text, pos + n, group)}} : TRUE

Match(pattern, k, text, pos, group) ==
    IF k > Len(pattern)
    THEN [ok |-> TRUE, from |-> group.from, to |-> group.to, end |-> pos]
    ELSE LET e == pattern[k]
             rest == SubSeq(pattern, k + 1, Len(pattern))
         IN  CASE e.kind = "lit" ->
                      IF /\ pos + Len(e.s) - 1 <= Len(text)
                         /\ SubSeq(text, pos, pos + Len(e.s) - 1) = e.s
                      THEN Match(pattern, k + 1, text, pos + Len(e.s), group)
                      ELSE NoMatch
               [] e.kind = "many" ->
                      CHOOSE match \in
                          {Longest(pattern, k, text, pos, group, n) :
                               n \in {Span(text, pos, e.cls)}} : TRUE
               [] e.kind = "opt" ->
                      CHOOSE match \in
                          {IF taken.ok THEN taken
                                       ELSE Match(pattern, k + 1, text, pos, group) :
                               taken \in {Match(p, 1, text, pos, group) :
                                              p \in {e.body \o rest}}} : TRUE
               [] e.kind = "alt" ->
                      LET hits == {i \in 1..Len(e.bodies) :
                                      \E p \in {e.bodies[i] \o rest} :
                                          Match(p, 1, text, pos, group).ok}
                      IN  CHOOSE match \in
                              {IF found = {} THEN NoMatch
                               ELSE Match(e.bodies[CHOOSE i \in found :
                                                       \A j \in found : i <= j] \o rest,
                                          1, text, pos, group) :
                                   found \in {hits}} : TRUE
               [] e.kind = "open" ->
                      Match(pattern, k + 1, text, pos, [group EXCEPT !.from = pos])
               [] e.kind = "close" ->
                      Match(pattern, k + 1, text, pos, [group EXCEPT !.to = pos])

\* re.search(pattern, text): the match at the leftmost position that has one
RECURSIVE SearchAt(_, _, _)
SearchAt(pattern, text, pos) ==
    IF pos > Len(text) + 1 THEN NoMatch
    ELSE CHOOSE match \in
             {IF here.ok THEN here ELSE SearchAt(pattern, text, pos + 1) :
                  here \in {Match(pattern, 1, text, pos, NoGroup)}} : TRUE

re_search(pattern, text) ==
    CHOOSE match \in {SearchAt(p, t, 1) : p \in {pattern}, t \in {text}} : TRUE

\* match.group(1)
group1(match, text) == SubSeq(text, match.from, match.to - 1)

\* str.strip()
RECURSIVE LeftStrip(_)
LeftStrip(s) ==
    IF s # "" /\ SubSeq(s, 1, 1) \in Whitespace
    THEN LeftStrip(SubSeq(s, 2, Len(s))) ELSE s

RECURSIVE RightStrip(_)
RightStrip(s) ==
    IF s # "" /\ SubSeq(s, Len(s), Len(s)) \in Whitespace
    THEN RightStrip(SubSeq(s, 1, Len(s) - 1)) ELSE s

Strip(s) == CHOOSE stripped \in {RightStrip(left) : left \in {LeftStrip(s)}} : TRUE

\* re.sub("^...", "", text, flags=re.IGNORECASE).strip() for a pattern anchored
\* at the start of the text: the match, if any, is cut off the front
CutPrefix(pattern, text) ==
    CHOOSE cut \in
        {IF match.ok THEN Strip(SubSeq(t, match.end, Len(t))) ELSE Strip(t) :
             t \in {text}, match \in {Match(pattern, 1, Lower(text), 1, NoGroup)}} : TRUE

\* the first pattern of the list, from the k-th on, that matches; 0 if none
RECURSIVE FirstPattern(_, _, _)
FirstPattern(patterns, text, k) ==
    IF k > Len(patterns) THEN 0
    ELSE IF re_search(patterns[k], text).ok THEN k
    ELSE FirstPattern(patterns, text, k + 1)

(***************************************************************************)
(* Parameter extraction.                                                   *)
(***************************************************************************)
Spaces == Many(Class(Whitespace), 1)
Rest == <<Open, Many(AnyChar, 1), Close>>
Gap == Many(AnyChar, 0)

city_pattern ==
    <<L("weather"), Gap, L("in"), Spaces,
      Open, Many(Class(Letter \cup Whitespace), 1), Close>>

search_patterns ==
    << <<L("search"), Spaces, Opt(<<L("for"), Spaces>>)>> \o Rest,
       <<L("look"), Spaces, L("up"), Spaces>> \o Rest,
       <<L("find"), Gap, L("about"), Spaces>> \o Rest,
       <<L("what"), Spaces, L("is"), Spaces>> \o Rest,
       <<L("tell"), Spaces, L("me"), Spaces, L("about"), Spaces>> \o Rest >>

math_pattern ==
    <<Open,
      Many(Class(Digit \cup {"+", "-", "*", "/", ".", "(", ")"} \cup Whitespace), 1),
      Close>>

vision_prefixes ==
    << <<Opt(<<Alt(<< <<L("can you ")>>, <<L("please ")>>, <<L("could you ")>> >>)>>)>>,
       <<Alt(<< <<L("what do you see")>>, <<L("analyze"), Gap, L("image")>>,
                <<L("describe"), Gap, L("image")>>, <<L("look at")>> >>)>>,
       <<Alt(<< <<L("in this image")>>, <<L("in the image")>> >>)>> >>

news_patterns ==
    << <<L("news about"), Spaces>> \o Rest,
       <<L("latest"), Gap, L("news"), Gap, L("on"), Spaces>> \o Rest,
       Rest \o <<Spaces, L("news")>> >>

path_patterns ==
    << <<L("files in"), Spaces>> \o Rest,
       <<L("list files"), Gap, L("in"), Spaces>> \o Rest,
       <<L("show"), Gap, L("files"), Gap, L("from"), Spaces>> \o Rest >>

Params(key, value, user_input) == (key :> value) @@ ("original_query" :> user_input)

\* params[key] = group 1 of the first matching pattern
Extracted(patterns, key, text, default, user_input) ==
    CHOOSE params \in
        {IF k # 0 THEN Params(key, Strip(group1(re_search(patterns[k], text), text)),
                              user_input)
                  ELSE default :
             k \in {FirstPattern(patterns, text, 1)}} : TRUE

ParametersOf(user_input, user_input_lower, intent) ==
    LET only_query == "original_query" :> user_input
    IN  CASE intent = "weather" ->
                 Extracted(<<city_pattern>>, "city", user_input_lower,
                           Params("city", "Jaipur", user_input), user_input)
          [] intent = "search" ->
                 Extracted(search_patterns, "query", user_input_lower,
                           Params("query", Strip(user_input), user_input), user_input)
          [] intent = "calculator" ->
                 Extracted(<<math_pattern>>, "expression", user_input,
                           Params("expression", Strip(user_input), user_input),
                           user_input)
          [] intent = "vision" ->
                 LET cleaned_query ==
                         CutPrefix(vision_prefixes[3],
                             CutPrefix(vision_prefixes[2],
                                 CutPrefix(vision_prefixes[1], user_input)))
                 IN  IF Len(cleaned_query) > 3
                     THEN Params("query", cleaned_query, user_input)
                     ELSE Params("query", "What do you see in this image?", user_input)
          [] intent = "news" ->
                 Extracted(news_patterns, "topic", user_input_lower, only_query,
                           user_input)
          [] intent = "files" ->
                 Extracted(path_patterns, "path", user_input_lower, only_query,
                           user_input)
          [] OTHER -> only_query

_extract_parameters(user_input, intent) ==
    CHOOSE params \in {ParametersOf(text, user_input_lower, intent) :
                           text \in {user_input},
                           user_input_lower \in {Lower(user_input)}} : TRUE

(***************************************************************************)
(* Tool Registry.                                                          *)
(***************************************************************************)
RegisteredTools == {"vision", "weather", "forecast", "search", "news", "system", "time",
                    "calculator", "files", "read_file", "reminder"}

Kwarg(kwargs, key, default) == IF key \in DOMAIN kwargs THEN kwargs[key] ELSE default

\* FileManagerTool.list_files: the listing of a directory under its heading,
\* or the text of what os.listdir raised
list_files(directory, outcome) ==
    IF outcome.raised
    THEN Returned("File listing error: " \o outcome.value)
    ELSE Returned("Files in '" \o directory \o "':\n   notes.txt (12 bytes)\n")

\* the try body of execute_tool: the branch of the tool named; `outcome` is
\* how the tool method behind the name ends (the tool methods catch their
\* own failures, except set_reminder, which raises on minutes it cannot add)
ToolBranch(tool_name, kwargs, outcome) ==
    CASE tool_name = "search" /\ Kwarg(kwargs, "query", "") = "" ->
             Returned("Please provide a search query")
      [] tool_name = "calculator" /\ Kwarg(kwargs, "expression", "") = "" ->
             Returned("Please provide a mathematical expression")
      [] tool_name = "read_file" /\ Kwarg(kwargs, "filename", "") = "" ->
             Returned("Please provide a filename")
      [] tool_name = "files" ->
             list_files(Kwarg(kwargs, "directory", "."), outcome)
      [] tool_name \notin RegisteredTools ->
             Returned("Unknown tool '" \o tool_name \o "'. Available tools: vision, weather, search, news, system, calculator, files, reminder")
      [] OTHER -> outcome

\* execute_tool without its handler
execute_tool_unguarded(tool_name, kwargs, outcome) == ToolBranch(tool_name, kwargs, outcome)

\* how a call of execute_tool ends
execute_tool(tool_name, kwargs, outcome) ==
    LET r == ToolBranch(tool_name, kwargs, outcome)
    IN  IF r.raised THEN Returned("Tool execution error: " \o r.value) ELSE r

\* the keyword arguments a stage passes on: params without "original_query"
Without(params, key) == [k \in (DOMAIN params) \ {key} |-> params[k]]

KnownIntents == {IntentOrder[i] : i \in 1..Len(IntentOrder)}

\* _tool_execution_node treating an intent it has no tool for as an error
_tool_execution_node_strict(state, tool) ==
    LET intent == state.detected_intent
        user_input == state.current_user_input
    IN  IF Truthy(intent) /\ user_input # ""
        THEN LET params == _extract_parameters(user_input, intent)
                 kwargs == Without(params, "original_query")
                 r == IF intent \in KnownIntents
                      THEN execute_tool(intent, kwargs, tool)
                      ELSE Raised("no tool for intent '" \o intent \o "'")
                 calls == IF intent \in KnownIntents
                          THEN <<Call("execute_tool", <<intent, kwargs>>, r)>>
                          ELSE <<>>
                 result == r.value
                 with_context ==
                     IF result # "" /\ params.original_query # ""
                     THEN "User asked: '" \o params.original_query
                              \o "'\nTool result: " \o result
                     ELSE result
             IN  IF r.raised
                 THEN Result([state EXCEPT
                                 !.error_message = "Tool execution error: " \o r.value],
                             calls)
                 ELSE Result([state EXCEPT !.tool_results = with_context], calls)
        ELSE Result(state, <<>>)

_tool_execution_node(state, tool) ==
    LET intent == state.detected_intent
        user_input == state.current_user_input
    IN  IF Truthy(intent) /\ user_input # ""
        THEN LET params == _extract_parameters(user_input, intent)
                 kwargs == Without(params, "original_query")
                 r == IF intent \in KnownIntents
                      THEN execute_tool(intent, kwargs, tool)
                      ELSE Returned("Intent '" \o intent
                                        \o "' detected but tool execution not implemented")
                 calls == IF intent \in KnownIntents
                          THEN <<Call("execute_tool", <<intent, kwargs>>, r)>>
                          ELSE <<>>
                 result == r.value
                 with_context ==
                     IF result # "" /\ params.original_query # ""
                     THEN "User asked: '" \o params.original_query
                              \o "'\nTool result: " \o result
                     ELSE result
             IN  IF r.raised
                 THEN Result([state EXCEPT
                                 !.error_message = "Tool execution error: " \o r.value],
                             calls)
                 ELSE Result([state EXCEPT !.tool_results = with_context], calls)
        ELSE Result(state, <<>>)

\* _ai_response_node answering whether the session is active or not
_ai_response_node_unguarded(state, agent) ==
    IF state.current_user_input # ""
    THEN LET context ==
                 IF Truthy(state.tool_results)
                 THEN "User query: " \o state.current_user_input
                          \o "\n\nTool results: " \o state.tool_results
                          \o "\n\nPlease provide a natural response incorporating this information."
                 ELSE state.current_user_input
             calls == <<Call("ask_agent", context, agent)>>
         IN  IF agent.raised
             THEN Result([state EXCEPT !.error_message = "AI response error: " \o agent.value],
                         calls)
             ELSE Result([state EXCEPT
                             !.current_response = agent.value,
                             !.messages = Append(@, <<"ai", agent.value>>),
                             !.chat_history =
                                 Append(@, <<state.current_user_input, agent.value>>)],
                         calls)
    ELSE Result(state, <<>>)

\* _ai_response_node answering with an apology when the model call fails
_ai_response_node_apologising(state, agent) ==
    IF state.current_user_input # "" /\ state.session_active
    THEN LET context ==
                 IF Truthy(state.tool_results)
                 THEN "User query: " \o state.current_user_input
                          \o "\n\nTool results: " \o state.tool_results
                          \o "\n\nPlease provide a natural response incorporating this information."
                 ELSE state.current_user_input
             calls == <<Call("ask_agent", context, agent)>>
         IN  IF agent.raised
             THEN Result([state EXCEPT !.error_message = "AI response error: " \o agent.value,
                                       !.current_response = "Sorry, something went wrong"],
                         calls)
             ELSE Result([state EXCEPT
                             !.current_response = agent.value,
                             !.messages = Append(@, <<"ai", agent.value>>),
                             !.chat_history =
                                 Append(@, <<state.current_user_input, agent.value>>)],
                         calls)
    ELSE Result(state, <<>>)

_ai_response_node(state, agent) ==
    IF state.current_user_input # "" /\ state.session_active
    THEN LET context ==
                 IF Truthy(state.tool_results)
                 THEN "User query: " \o state.current_user_input
                          \o "\n\nTool results: " \o state.tool_results
                          \o "\n\nPlease provide a natural response incorporating this information."
                 ELSE state.current_user_input
             calls == <<Call("ask_agent", context, agent)>>
         IN  IF agent.raised
             THEN Result([state EXCEPT !.error_message = "AI response error: " \o agent.value],
                         calls)
             ELSE Result([state EXCEPT
                             !.current_response = agent.value,
                             !.messages = Append(@, <<"ai", agent.value>>),
                             !.chat_history =
                                 Append(@, <<state.current_user_input, agent.value>>)],
                         calls)
    ELSE Result(state, <<>>)

QuotaKeywords == {"quota", "limit", "credits", "exceeded", "401", "unauthorized"}

\* the marker test on the message as raised, not on its lowercase form
IsQuotaError_as_raised(error_str) ==
    \E keyword \in QuotaKeywords : Contains(error_str, keyword)

\* the marker test that takes every failure for a quota failure
IsQuotaError_always(error_str) == TRUE

IsQuotaError(error_str) == \E keyword \in QuotaKeywords : Contains(Lower(error_str), keyword)

FallbackNotice == <<"System", "Switched to Google TTS due to ElevenLabs quota limit">>
NoAudioNotice ==
    <<"System", "Audio output unavailable. Continuing with text-only responses.">>

\* _text_to_speech_node ending the session when no synthesizer is left
_text_to_speech_node_giving_up(state, primary, secondary) ==
    IF state.current_response # ""
    THEN LET response_text == state.current_response
             first == Call("text_to_speech_with_eleven_lab", response_text, primary)
             second == Call("text_to_speech_with_gtts", response_text, secondary)
         IN  IF ~primary.raised
             THEN Result(state, <<first>>)
             ELSE IF IsQuotaError(primary.value)
                  THEN IF ~secondary.raised
                       THEN Result([state EXCEPT !.chat_history = Append(@, FallbackNotice)],
                                   <<first, second>>)
                       ELSE Result([state EXCEPT
                                       !.error_message =
                                           "TTS error: Both TTS services failed - ElevenLabs: "
                                               \o primary.value \o ", gTTS: " \o secondary.value,
                                       !.session_active = FALSE,
                                       !.chat_history = Append(@, NoAudioNotice)],
                                   <<first, second>>)
                  ELSE Result([state EXCEPT !.error_message = "TTS error: " \o primary.value],
                              <<first>>)
    ELSE Result(state, <<>>)

_text_to_speech_node(state, primary, secondary) ==
    IF state.current_response # ""
    THEN LET response_text == state.current_response
             first == Call("text_to_speech_with_eleven_lab", response_text, primary)
             second == Call("text_to_speech_with_gtts", response_text, secondary)
         IN  IF ~primary.raised
             THEN Result(state, <<first>>)
             ELSE IF IsQuotaError(primary.value)
                  THEN IF ~secondary.raised
                       THEN Result([state EXCEPT !.chat_history = Append(@, FallbackNotice)],
                                   <<first, second>>)
                       ELSE Result([state EXCEPT
                                       !.error_message =
                                           "TTS error: Both TTS services failed - ElevenLabs: "
                                               \o primary.value \o ", gTTS: " \o secondary.value,
                                       !.chat_history = Append(@, NoAudioNotice)],
                                   <<first, second>>)
                  ELSE Result([state EXCEPT !.error_message = "TTS error: " \o primary.value],
                              <<first>>)
    ELSE Result(state, <<>>)

\* _should_use_tools looking at needs_tool_execution before error_message
_should_use_tools_tools_first(state) ==
    IF state.needs_tool_execution THEN "use_tools"
    ELSE IF Truthy(state.error_message) THEN "error"
    ELSE "direct_response"

_should_use_tools(state) ==
    IF Truthy(state.error_message) THEN "error"
    ELSE IF state.needs_tool_execution THEN "use_tools"
    ELSE "direct_response"

\* _should_continue looking at error_message before session_active
_should_continue_error_first(state) ==
    IF Truthy(state.error_message) THEN "error_handler"
    ELSE "end"

\* _should_continue without its error branch
_should_continue_ending(state) == "end"

_should_continue(state) ==
    IF ~state.session_active THEN "end"
    ELSE IF Truthy(state.error_message) THEN "error_handler"
    ELSE "end"

\* the error handler leaving needs_tool_execution as it finds it
_error_handler_node_keeping_flag(state) ==
    LET error_msg == state.error_message
    IN  Result([state EXCEPT
                   !.chat_history = Append(@, <<"System", "Error: " \o Formatted(error_msg)>>),
                   !.error_message = None,
                   !.processing_audio = FALSE],
               <<>>)

\* the error handler also forgetting the intent it was handed
_error_handler_node_forgetting(state) ==
    LET error_msg == state.error_message
    IN  Result([state EXCEPT
                   !.chat_history = Append(@, <<"System", "Error: " \o Formatted(error_msg)>>),
                   !.error_message = None,
                   !.detected_intent = None,
                   !.processing_audio = FALSE,
                   !.needs_tool_execution = FALSE],
               <<>>)

_error_handler_node(state) ==
    LET error_msg == state.error_message
    IN  Result([state EXCEPT
                   !.chat_history = Append(@, <<"System", "Error: " \o Formatted(error_msg)>>),
                   !.error_message = None,
                   !.processing_audio = FALSE,
                   !.needs_tool_execution = FALSE],
               <<>>)

\* the graph built by _create_workflow: the stage that follows `stage`
END == "END"

\* the graph with the edge out of tool_execution drawn to text_to_speech
NextStage_past_response(stage, state) ==
    CASE stage = "record_audio" -> "transcribe"
      [] stage = "transcribe" -> "intent_detection"
      [] stage = "intent_detection" ->
             (CASE _should_use_tools(state) = "use_tools" -> "tool_execution"
                [] _should_use_tools(state) = "direct_response" -> "ai_response"
                [] _should_use_tools(state) = "error" -> "error_handler")
      [] stage = "tool_execution" -> "text_to_speech"
      [] stage = "ai_response" -> "text_to_speech"
      [] stage = "text_to_speech" ->
             (CASE _should_continue(state) = "end" -> END
                [] _should_continue(state) = "error_handler" -> "error_handler")
      [] stage = "error_handler" -> END

NextStage(stage, state) ==
    CASE stage = "record_audio" -> "transcribe"
      [] stage = "transcribe" -> "intent_detection"
      [] stage = "intent_detection" ->
             (CASE _should_use_tools(state) = "use_tools" -> "tool_execution"
                [] _should_use_tools(state) = "direct_response" -> "ai_response"
                [] _should_use_tools(state) = "error" -> "error_handler")
      [] stage = "tool_execution" -> "ai_response"
      [] stage = "ai_response" -> "text_to_speech"
      [] stage = "text_to_speech" ->
             (CASE _should_continue(state) = "end" -> END
                [] _should_continue(state) = "error_handler" -> "error_handler")
      [] stage = "error_handler" -> END

Stages == {"record_audio", "transcribe", "intent_detection", "tool_execution",
           "ai_response", "text_to_speech", "error_handler"}

(***************************************************************************)
(* State.                                                                  *)
(***************************************************************************)
Consumers == 1..NumConsumers

VARIABLES
    \* EnhancedChatManager
    chat_history, is_processing, session_active, tools_enabled, last_intent,
    conversation_count,
    \* each generator of continuous_audio_processing: where it is, its
    \* retry_count, and the Turn State of the process_audio_cycle call it made
    pc, retry_count, state,
    \* observed per turn: the stages run, the external calls made, the stages
    \* that set error_message, the manager's history when the turn started
    trace, io, setters, base,
    \* observed per generator: how many of its latest cycles in a row ended
    \* with an exception escaping workflow.invoke, and how many of its latest
    \* loop iterations in a row raised
    escaped, streak,
    \* what the bounds apply to: the calls of process_audio_cycle made, the
    \* commands issued (in order), the exceptions raised in loop iterations
    cycles, commands, throws

manager == <<chat_history, is_processing, session_active, tools_enabled, last_intent,
             conversation_count>>
turn == <<state, trace, io, setters, base>>
counters == <<cycles, commands, throws>>
vars == <<manager, pc, retry_count, turn, escaped, streak, counters>>

\* a retry budget one short
max_retries_short == 3 - 1

max_retries == 3

WelcomeMessage == <<"System", "Enhanced AI Assistant Ready!">>
ClosingMessage == <<"System", "Session ended. Say 'hello' or restart to begin again!">>
RestartMessage == <<"System", "Session Restarted Successfully!">>
MaxRetriesMessage ==
    <<"System", "Maximum retry attempts reached. Please restart the session.">>

Digits == <<"1", "2", "3", "4", "5", "6", "7", "8", "9">>
Str(n) == IF n = 0 THEN "0" ELSE IF n <= 9 THEN Digits[n] ELSE "10+"

Init ==
    /\ chat_history = <<>>
    /\ is_processing = FALSE
    /\ session_active = TRUE
    /\ tools_enabled = TRUE
    /\ last_intent = None
    /\ conversation_count = 0
    /\ pc = [c \in Consumers |-> "start"]
    /\ retry_count = [c \in Consumers |-> 0]
    /\ state = [c \in Consumers |-> create_initial_state(<<>>)]
    /\ trace = [c \in Consumers |-> <<>>]
    /\ io = [c \in Consumers |-> <<>>]
    /\ setters = [c \in Consumers |-> <<>>]
    /\ base = [c \in Consumers |-> <<>>]
    /\ escaped = [c \in Consumers |-> 0]
    /\ streak = [c \in Consumers |-> 0]
    /\ cycles = 0
    /\ commands = <<>>
    /\ throws = 0

(***************************************************************************)
(* continuous_audio_processing, one generator per consumer.                *)
(***************************************************************************)
\* lines 65-84: the welcome message and the first yield
Start(c) ==
    /\ pc[c] = "start"
    /\ chat_history' = IF chat_history = <<>> THEN <<WelcomeMessage>> ELSE chat_history
    /\ pc' = [pc EXCEPT ![c] = "loop"]
    /\ UNCHANGED <<is_processing, session_active, tools_enabled, last_intent,
                   conversation_count, retry_count, turn, escaped, streak, counters>>

\* line 86: the loop condition holds; line 89: process_audio_cycle is called
Enter(c) ==
    /\ pc[c] = "loop"
    /\ session_active /\ retry_count[c] < max_retries
    /\ pc' = [pc EXCEPT ![c] = "check"]
    /\ cycles' = cycles + 1
    /\ UNCHANGED <<manager, retry_count, turn, escaped, streak, commands, throws>>

\* line 86: the loop condition fails, the generator returns
Exit(c) ==
    /\ pc[c] = "loop"
    /\ ~(session_active /\ retry_count[c] < max_retries)
    /\ pc' = [pc EXCEPT ![c] = "done"]
    /\ UNCHANGED <<manager, retry_count, turn, escaped, streak, counters>>

\* process_audio_cycle without its guard: the call goes on to start a turn
Check_unguarded(c) ==
    /\ pc[c] = "check"
    /\ pc' = [pc EXCEPT ![c] = "set"]
    /\ UNCHANGED <<manager, retry_count, turn, escaped, streak, counters>>

\* process_audio_cycle lines 25-26: the reentrancy guard
Check(c) ==
    /\ pc[c] = "check"
    /\ pc' = [pc EXCEPT ![c] = IF is_processing THEN "yield" ELSE "set"]
    /\ UNCHANGED <<manager, retry_count, turn, escaped, streak, counters>>

\* process_audio_cycle line 28
Set(c) ==
    /\ pc[c] = "set"
    /\ is_processing' = TRUE
    /\ pc' = [pc EXCEPT ![c] = "invoke"]
    /\ UNCHANGED <<chat_history, session_active, tools_enabled, last_intent,
                   conversation_count, retry_count, turn, escaped, streak, counters>>

\* the Turn State and what was observed of the turn are locals of the call:
\* they are gone when it returns
Forget(c) ==
    /\ state' = [state EXCEPT ![c] = create_initial_state(<<>>)]
    /\ trace' = [trace EXCEPT ![c] = <<>>]
    /\ io' = [io EXCEPT ![c] = <<>>]
    /\ setters' = [setters EXCEPT ![c] = <<>>]
    /\ base' = [base EXCEPT ![c] = <<>>]

\* process_audio_cycle lines 32-35: a fresh Turn State over a copy of the
\* history, handed to the graph, which starts at its entry point
Invoke(c) ==
    /\ pc[c] = "invoke"
    /\ state' = [state EXCEPT ![c] = create_initial_state(chat_history)]
    /\ trace' = [trace EXCEPT ![c] = <<>>]
    /\ io' = [io EXCEPT ![c] = <<>>]
    /\ setters' = [setters EXCEPT ![c] = <<>>]
    /\ base' = [base EXCEPT ![c] = chat_history]
    /\ pc' = [pc EXCEPT ![c] = "record_audio"]
    /\ UNCHANGED <<manager, retry_count, escaped, streak, counters>>

InvokeFaults == {"checkpointer failure"}

\* process_audio_cycle without its finally clause: the handler appends the
\* System entry and the flag stays set
InvokeRaises_holding(c) ==
    /\ pc[c] = "invoke"
    /\ \E e \in {"checkpointer failure"} :
          chat_history' = Append(chat_history, <<"System", "Workflow Error: " \o e>>)
    /\ Forget(c)
    /\ escaped' = [escaped EXCEPT ![c] = @ + 1]
    /\ pc' = [pc EXCEPT ![c] = "yield"]
    /\ UNCHANGED <<is_processing, session_active, tools_enabled, last_intent,
                   conversation_count, retry_count, streak, counters>>

\* process_audio_cycle lines 35, 54-61: workflow.invoke raises; the handler
\* appends a System entry, the finally clause releases the flag
InvokeRaises(c) ==
    /\ pc[c] = "invoke"
    /\ \E e \in InvokeFaults :
          chat_history' = Append(chat_history, <<"System", "Workflow Error: " \o e>>)
    /\ is_processing' = FALSE
    /\ Forget(c)
    /\ escaped' = [escaped EXCEPT ![c] = @ + 1]
    /\ pc' = [pc EXCEPT ![c] = "yield"]
    /\ UNCHANGED <<session_active, tools_enabled, last_intent, conversation_count,
                   retry_count, streak, counters>>

\* one stage of the graph ran with result `res`
Ran(c, stage, res) ==
    /\ state' = [state EXCEPT ![c] = res.state]
    /\ trace' = [trace EXCEPT ![c] = Append(@, stage)]
    /\ io' = [io EXCEPT ![c] = @ \o res.io]
    /\ setters' = [setters EXCEPT ![c] =
                      IF res.state.error_message # None
                            /\ res.state.error_message # state[c].error_message
                      THEN Append(@, stage) ELSE @]
    /\ pc' = [pc EXCEPT ![c] = NextStage(stage, res.state)]
    /\ UNCHANGED <<manager, retry_count, base, escaped, streak, counters>>

RecordAudio(c, env) ==
    /\ pc[c] = "record_audio"
    /\ \E mic \in env.mic :
           \E res \in {_audio_recording_node(state[c], mic)} :
               Ran(c, "record_audio", res)

Transcribe(c, env) ==
    /\ pc[c] = "transcribe"
    /\ \E tr \in env.transcribe :
           \E res \in {_transcription_node(state[c], tr)} :
               Ran(c, "transcribe", res)

IntentDetection(c) ==
    /\ pc[c] = "intent_detection"
    /\ \E res \in {_intent_detection_node(state[c])} :
           Ran(c, "intent_detection", res)

ToolExecution(c, env) ==
    /\ pc[c] = "tool_execution"
    /\ \E tool \in env.tool :
           \E res \in {_tool_execution_node(state[c], tool)} :
               Ran(c, "tool_execution", res)

AiResponse(c, env) ==
    /\ pc[c] = "ai_response"
    /\ \E agent \in env.agent :
           \E res \in {_ai_response_node(state[c], agent)} :
               Ran(c, "ai_response", res)

TextToSpeech(c, env) ==
    /\ pc[c] = "text_to_speech"
    /\ \E primary \in env.primary, secondary \in env.secondary :
           \E res \in {_text_to_speech_node(state[c], primary, secondary)} :
               Ran(c, "text_to_speech", res)

ErrorHandler(c) ==
    /\ pc[c] = "error_handler"
    /\ \E res \in {_error_handler_node(state[c])} :
           Ran(c, "error_handler", res)

\* the update that extends the manager's history with the turn's history
\* where process_audio_cycle replaces it
Folded_extending(history, final_state) ==
    LET replaced == IF final_state.chat_history # <<>>
                    THEN history \o final_state.chat_history ELSE history
    IN  IF ~final_state.session_active
        THEN Append(replaced, ClosingMessage)
        ELSE replaced

\* process_audio_cycle lines 38-52: the manager's history after a turn whose
\* final Turn State is `final_state`: replaced by the turn's history when
\* that is not empty, and closed when the turn ended the session
Folded(history, final_state) ==
    LET replaced == IF final_state.chat_history # <<>>
                    THEN final_state.chat_history ELSE history
    IN  IF ~final_state.session_active
        THEN Append(replaced, ClosingMessage)
        ELSE replaced

\* the update that copies the turn's session flag to the manager, where
\* process_audio_cycle only ever clears the manager's
Update_copying_flag(c) ==
    LET final_state == state[c]
    IN  /\ pc[c] = END
        /\ chat_history' = Folded(chat_history, final_state)
        /\ conversation_count' = IF final_state.chat_history # <<>>
                                 THEN Len(final_state.chat_history)
                                 ELSE conversation_count
        /\ last_intent' = IF Truthy(final_state.detected_intent)
                          THEN final_state.detected_intent ELSE last_intent
        /\ session_active' = final_state.session_active
        /\ is_processing' = FALSE
        /\ escaped' = [escaped EXCEPT ![c] = 0]
        /\ pc' = [pc EXCEPT ![c] = "yield"]
        /\ Forget(c)
        /\ UNCHANGED <<tools_enabled, retry_count, streak, counters>>

\* process_audio_cycle lines 37-52, 59-61: the graph reached END and invoke
\* returned the final Turn State
Update(c) ==
    LET final_state == state[c]
    IN  /\ pc[c] = END
        /\ chat_history' = Folded(chat_history, final_state)
        /\ conversation_count' = IF final_state.chat_history # <<>>
                                 THEN Len(final_state.chat_history)
                                 ELSE conversation_count
        /\ last_intent' = IF Truthy(final_state.detected_intent)
                          THEN final_state.detected_intent ELSE last_intent
        /\ session_active' = IF ~final_state.session_active THEN FALSE ELSE session_active
        /\ is_processing' = FALSE
        /\ escaped' = [escaped EXCEPT ![c] = 0]
        /\ pc' = [pc EXCEPT ![c] = "yield"]
        /\ Forget(c)
        /\ UNCHANGED <<tools_enabled, retry_count, streak, counters>>

\* the yield returns and the retry counter is left as it is
Resume_counting_on(c) ==
    /\ pc[c] = "yield"
    /\ streak' = [streak EXCEPT ![c] = 0]
    /\ pc' = [pc EXCEPT ![c] = IF ~session_active THEN "done" ELSE "loop"]
    /\ UNCHANGED <<manager, retry_count, turn, escaped, counters>>

\* lines 92-102: the yield returns; the retry counter is reset, the session
\* flag is looked at again
Resume(c) ==
    /\ pc[c] = "yield"
    /\ retry_count' = [retry_count EXCEPT ![c] = 0]
    /\ streak' = [streak EXCEPT ![c] = 0]
    /\ pc' = [pc EXCEPT ![c] = IF ~session_active THEN "done" ELSE "loop"]
    /\ UNCHANGED <<manager, turn, escaped, counters>>

IterationFaults == {"consumer fault"}

\* lines 92, 104-110: an exception is raised inside the try of the loop body
\* (at the yield, the one place where one can arrive: process_audio_cycle
\* catches every Exception itself); the handler counts it, appends a System
\* entry and yields
Throw(c) ==
    /\ pc[c] = "yield"
    /\ retry_count' = [retry_count EXCEPT ![c] = @ + 1]
    /\ streak' = [streak EXCEPT ![c] = @ + 1]
    /\ \E e \in IterationFaults :
          chat_history' =
              Append(chat_history,
                     <<"System", "Processing error (attempt " \o Str(retry_count'[c])
                                     \o "/" \o Str(max_retries) \o "): " \o e>>)
    /\ throws' = throws + 1
    /\ pc' = [pc EXCEPT ![c] = "retry_yielded"]
    /\ UNCHANGED <<is_processing, session_active, tools_enabled, last_intent,
                   conversation_count, turn, escaped, cycles, commands>>

\* lines 112-122: after the handler's yield, the retry budget is looked at
AfterRetry(c) ==
    /\ pc[c] = "retry_yielded"
    /\ IF retry_count[c] >= max_retries
       THEN /\ chat_history' = Append(chat_history, MaxRetriesMessage)
            /\ session_active' = FALSE
            /\ pc' = [pc EXCEPT ![c] = "final_yielded"]
       ELSE /\ pc' = [pc EXCEPT ![c] = "loop"]
            /\ UNCHANGED <<chat_history, session_active>>
    /\ UNCHANGED <<is_processing, tools_enabled, last_intent, conversation_count,
                   retry_count, turn, escaped, streak, counters>>

\* line 119: the break after the final yield
Break(c) ==
    /\ pc[c] = "final_yielded"
    /\ pc' = [pc EXCEPT ![c] = "done"]
    /\ UNCHANGED <<manager, retry_count, turn, escaped, streak, counters>>

(***************************************************************************)
(* Out-of-band commands of the Conversation Surface.                       *)
(***************************************************************************)
\* clear_chat_history leaving the session flag as it finds it
clear_chat_history_keeping_session ==
    /\ chat_history' = <<>>
    /\ conversation_count' = 0
    /\ last_intent' = None
    /\ commands' = Append(commands, "clear_chat_history")
    /\ UNCHANGED <<is_processing, session_active, tools_enabled, pc, retry_count, turn,
                   escaped, streak, cycles, throws>>

clear_chat_history ==
    /\ chat_history' = <<>>
    /\ session_active' = TRUE
    /\ conversation_count' = 0
    /\ last_intent' = None
    /\ commands' = Append(commands, "clear_chat_history")
    /\ UNCHANGED <<is_processing, tools_enabled, pc, retry_count, turn, escaped, streak,
                   cycles, throws>>

\* restart_session adding its welcome message to the history it finds
restart_session_appending ==
    /\ session_active' = TRUE
    /\ is_processing' = FALSE
    /\ conversation_count' = 0
    /\ last_intent' = None
    /\ chat_history' = Append(chat_history, RestartMessage)
    /\ commands' = Append(commands, "restart_session")
    /\ UNCHANGED <<tools_enabled, pc, retry_count, turn, escaped, streak, cycles, throws>>

restart_session ==
    /\ session_active' = TRUE
    /\ is_processing' = FALSE
    /\ conversation_count' = 0
    /\ last_intent' = None
    /\ chat_history' = <<RestartMessage>>
    /\ commands' = Append(commands, "restart_session")
    /\ UNCHANGED <<tools_enabled, pc, retry_count, turn, escaped, streak, cycles, throws>>

\* toggle_tools announcing the new status in place of the history
toggle_tools_replacing ==
    /\ tools_enabled' = ~tools_enabled
    /\ chat_history' =
           <<<<"System", "Tools are now "
                             \o (IF tools_enabled' THEN "enabled" ELSE "disabled")>>>>
    /\ commands' = Append(commands, "toggle_tools")
    /\ UNCHANGED <<is_processing, session_active, last_intent, conversation_count, pc,
                   retry_count, turn, escaped, streak, cycles, throws>>

toggle_tools ==
    /\ tools_enabled' = ~tools_enabled
    /\ chat_history' =
           Append(chat_history,
                  <<"System", "Tools are now "
                                  \o (IF tools_enabled' THEN "enabled" ELSE "disabled")>>)
    /\ commands' = Append(commands, "toggle_tools")
    /\ UNCHANGED <<is_processing, session_active, last_intent, conversation_count, pc,
                   retry_count, turn, escaped, streak, cycles, throws>>

\* str.title() of the tool names used
Title(tool_name) ==
    CASE tool_name = "time" -> "Time"
      [] tool_name = "teleport" -> "Teleport"

ManualTools == {"time", "teleport"}

\* how the tool method behind a manual call may end
ManualOutcomes == {Returned("10:42 AM"), Raised("clock unavailable")}

\* execute_manual_tool appending nothing when the registry does not know the
\* tool
execute_manual_tool_silent ==
    /\ \E tool_name \in ManualTools, outcome \in ManualOutcomes :
          \E r \in {execute_tool(tool_name, <<>>, outcome)} :
              chat_history' =
                  IF tool_name \notin RegisteredTools
                  THEN chat_history
                  ELSE Append(chat_history,
                              IF r.raised
                              THEN <<"System", "Tool execution error: " \o r.value>>
                              ELSE <<"Tool: " \o Title(tool_name), r.value>>)
    /\ commands' = Append(commands, "execute_manual_tool")
    /\ UNCHANGED <<is_processing, session_active, tools_enabled, last_intent,
                   conversation_count, pc, retry_count, turn, escaped, streak, cycles, throws>>

execute_manual_tool ==
    /\ \E tool_name \in ManualTools, outcome \in ManualOutcomes :
          \E r \in {execute_tool(tool_name, <<>>, outcome)} :
              chat_history' =
                  Append(chat_history,
                         IF r.raised
                         THEN <<"System", "Tool execution error: " \o r.value>>
                         ELSE <<"Tool: " \o Title(tool_name), r.value>>)
    /\ commands' = Append(commands, "execute_manual_tool")
    /\ UNCHANGED <<is_processing, session_active, tools_enabled, last_intent,
                   conversation_count, pc, retry_count, turn, escaped, streak, cycles, throws>>

\* export_chat_history: the history is written to a file and read only
export_chat_history ==
    /\ commands' = Append(commands, "export_chat_history")
    /\ UNCHANGED <<manager, pc, retry_count, turn, escaped, streak, cycles, throws>>

(***************************************************************************)
(* Specifications.                                                         *)
(***************************************************************************)
Pipeline(c, env) ==
    \/ RecordAudio(c, env)
    \/ Transcribe(c, env)
    \/ IntentDetection(c)
    \/ ToolExecution(c, env)
    \/ AiResponse(c, env)
    \/ TextToSpeech(c, env)
    \/ ErrorHandler(c)

Cycle(c, env) ==
    \/ Check(c)
    \/ Set(c)
    \/ Invoke(c)
    \/ InvokeRaises(c)
    \/ Pipeline(c, env)
    \/ Update(c)

\* the steps of a generator from one loop head to the next, other than the
\* one the bound on cycles applies to
Turns(c, env) ==
    \/ Start(c)
    \/ Cycle(c, env)
    \/ Resume(c)

\* the steps of a generator other than the two the bounds apply to
Generator(c, env) ==
    \/ Turns(c, env)
    \/ Exit(c)
    \/ AfterRetry(c)
    \/ Break(c)

Command ==
    \/ clear_chat_history
    \/ restart_session
    \/ toggle_tools
    \/ execute_manual_tool

\* every consumer and every command, interleaved; no exception is thrown
\* into a generator
Next ==
    \/ \E c \in Consumers :
          \/ Turns(c, SomeOutcomes)
          \/ Exit(c)
          \/ cycles < MaxCycles /\ Enter(c)
    \/ Len(commands) < MaxCommands /\ Command

Spec == Init /\ [][Next]_vars

\* no call of process_audio_cycle is under way in the generator of c
Idle(c) == pc[c] \in {"start", "loop", "yield", "done"}

\* one consumer and the commands, one operation at a time: a command is
\* issued only between the calls of process_audio_cycle
SerialNext ==
    \/ Turns(1, SomeOutcomes)
    \/ cycles < SerialMaxCycles /\ Enter(1)
    \/ /\ Idle(1)
       /\ Len(commands) < SerialMaxCommands
       /\ (Command \/ export_chat_history)

SerialSpec == Init /\ [][SerialNext]_vars

\* one consumer and the commands: what the buttons of the Conversation Surface
\* do to a session between and during its turns
CmdNext ==
    \/ Turns(1, SomeOutcomes)
    \/ cycles < CmdMaxCycles /\ Enter(1)
    \/ Len(commands) < CmdMaxCommands /\ Command

CmdSpec == Init /\ [][CmdNext]_vars

\* the turns of one consumer over everything a user may say, and the manual
\* tool button
SaidNext ==
    \/ Turns(1, SaidOutcomes)
    \/ cycles < SaidMaxCycles /\ Enter(1)
    \/ Len(commands) < SaidMaxCommands /\ execute_manual_tool

SaidSpec == Init /\ [][SaidNext]_vars

\* what the collaborators do in the sessions the retry counter is followed
\* through: few outcomes, so that more iterations fit
RetryOutcomes ==
    [mic |-> {"speech"},
     transcribe |-> {Returned("Goodbye"), Returned("What's the weather in Paris?"),
                     Raised("file not found")},
     tool |-> {Returned("Sunny, 21 C")},
     agent |-> {Returned("Here you go")},
     primary |-> {Returned("played"), Raised("Quota Exceeded")},
     secondary |-> {Returned("played")}]

\* one consumer over more iterations than the retry budget, with exceptions
\* thrown into the loop body
RetryNext ==
    \/ Generator(1, RetryOutcomes)
    \/ cycles < RetryMaxCycles /\ Enter(1)
    \/ throws < RetryMaxThrows /\ Throw(1)

RetrySpec == Init /\ [][RetryNext]_vars

\* one consumer, no command: the single thread of control of a session
SeqNext ==
    \/ Generator(1, SomeOutcomes)
    \/ cycles < SeqMaxCycles /\ Enter(1)
    \/ throws < SeqMaxThrows /\ Throw(1)

SeqSpec == Init /\ [][SeqNext]_vars

\* the turns of one consumer, with every outcome of every collaborator; no
\* exception is thrown into the generator, which so never finds its loop
\* condition false at the loop head (it leaves by the break of line 102)
TurnNext ==
    \/ Turns(1, AllOutcomes)
    \/ cycles < TurnMaxCycles /\ Enter(1)

TurnSpec == Init /\ [][TurnNext]_vars

\* a stage that began ends: every call of a stage returns or raises
FairTurnSpec ==
    /\ TurnSpec
    /\ WF_vars(RecordAudio(1, AllOutcomes))
    /\ WF_vars(Transcribe(1, AllOutcomes))
    /\ WF_vars(IntentDetection(1))
    /\ WF_vars(ToolExecution(1, AllOutcomes))
    /\ WF_vars(AiResponse(1, AllOutcomes))
    /\ WF_vars(TextToSpeech(1, AllOutcomes))
    /\ WF_vars(ErrorHandler(1))

\* The stages and the two routers as functions of the Turn State: the graph
\* entered at any stage with any Turn State out of a bounded set, the way
\* EnhancedAIAssistantWorkflow.invoke takes whatever AgentState it is handed
AgentStates ==
    [messages : {<<>>},
     chat_history : {<<>>},
     audio_file : {"audio_question.mp3"},
     current_user_input : {"", "What's the weather in Paris?", "Goodbye"},
     current_response : {"", "Here you go"},
     error_message : {None, "Transcription error: file not found"},
     session_active : BOOLEAN,
     processing_audio : BOOLEAN,
     detected_intent : {None, "weather", "reminder"},
     tool_results : {None},
     needs_tool_execution : BOOLEAN]

GraphInit ==
    /\ chat_history = <<WelcomeMessage>>
    /\ is_processing = TRUE
    /\ session_active = TRUE
    /\ tools_enabled = TRUE
    /\ last_intent = None
    /\ conversation_count = 0
    /\ \E stage \in Stages :
          pc = [c \in Consumers |-> IF c = 1 THEN stage ELSE "start"]
    /\ retry_count = [c \in Consumers |-> 0]
    /\ \E given \in AgentStates :
          state = [c \in Consumers |-> IF c = 1 THEN given ELSE create_initial_state(<<>>)]
    /\ trace = [c \in Consumers |-> <<>>]
    /\ io = [c \in Consumers |-> <<>>]
    /\ setters = [c \in Consumers |-> <<>>]
    /\ base = [c \in Consumers |-> <<>>]
    /\ escaped = [c \in Consumers |-> 0]
    /\ streak = [c \in Consumers |-> 0]
    /\ cycles = 1
    /\ commands = <<>>
    /\ throws = 0

\* every outcome, and a tool method that raises
GraphOutcomes == [AllOutcomes EXCEPT !.tool = @ \cup {Raised("connection pool is closed")}]

GraphNext == Pipeline(1, GraphOutcomes)

GraphSpec == GraphInit /\ [][GraphNext]_vars

(***************************************************************************)
(* Properties.                                                             *)
(***************************************************************************)
Last(seq) == seq[Len(seq)]
Range(seq) == {seq[i] : i \in 1..Len(seq)}
IsPrefix(p, q) == Len(p) <= Len(q) /\ SubSeq(q, 1, Len(p)) = p
Suffix(p, q) == SubSeq(q, Len(p) + 1, Len(q))
Count(seq, Test(_)) == Cardinality({i \in 1..Len(seq) : Test(seq[i])})

InFlight(c) == pc[c] \in Stages

\* the orders in which the graph may run its stages in one turn
DeclaredOrders ==
    {<<"record_audio", "transcribe", "intent_detection", "error_handler">>,
     <<"record_audio", "transcribe", "intent_detection", "ai_response", "text_to_speech">>,
     <<"record_audio", "transcribe", "intent_detection", "ai_response", "text_to_speech",
       "error_handler">>,
     <<"record_audio", "transcribe", "intent_detection", "tool_execution", "ai_response",
       "text_to_speech">>,
     <<"record_audio", "transcribe", "intent_detection", "tool_execution", "ai_response",
       "text_to_speech", "error_handler">>}

StagesInOrder ==
    \A c \in Consumers :
        /\ InFlight(c) =>
              \E order \in DeclaredOrders : IsPrefix(Append(trace[c], pc[c]), order)
        /\ pc[c] = END => trace[c] \in DeclaredOrders

\* C1: in every turn the stages run in the declared order: record_audio,
\* transcribe, intent_detection, then error_handler, or (optionally
\* tool_execution) ai_response, text_to_speech and (optionally) error_handler;
\* no stage runs twice, and every turn that began reaches END (the turns of
\* the fair specification are those of consumer 1).
C1_StageOrder ==
    /\ []StagesInOrder
    /\ InFlight(1) ~> (pc[1] = END)

C1_Witness ==
    /\ pc[1] = END
    /\ trace[1] = <<"record_audio", "transcribe", "intent_detection", "tool_execution",
                    "ai_response", "text_to_speech", "error_handler">>

\* C2: at most one execution of the Turn Pipeline is in flight at any time,
\* whatever the consumers and the commands do.
C2_SingleFlight == Cardinality({c \in Consumers : InFlight(c)}) <= 1

IsErrorEntry(entry) ==
    /\ entry[1] = "System"
    /\ Len(entry[2]) >= 7
    /\ SubSeq(entry[2], 1, 7) = "Error: "

\* C3: a turn in which a stage set error_message runs error_handler before
\* it ends, which appends a System "Error: ..." entry; no turn ends with
\* error_message still set.
C3_ErrorsHandled ==
    \A c \in Consumers :
        pc[c] = END =>
            /\ state[c].error_message = None
            /\ setters[c] # <<>> =>
                  /\ Last(trace[c]) = "error_handler"
                  /\ Len(state[c].chat_history) > Len(base[c])
                  /\ IsErrorEntry(Last(state[c].chat_history))

C3_Witness ==
    /\ pc[1] = END
    /\ setters[1] = <<"text_to_speech">>
    /\ IsErrorEntry(Last(state[1].chat_history))

\* C4: in continuous_audio_processing the third loop iteration in a row that
\* raises makes the generator append the termination message, set
\* session_active to FALSE, yield once more and return; it yields nothing
\* after that; an iteration that raises with fewer than 3 in a row goes back
\* to the loop, and the generator returns only after 3 in a row or after the
\* session was ended by a turn.
AfterFaultStep ==
    \A c \in Consumers :
        pc[c] = "retry_yielded" /\ pc'[c] # "retry_yielded" =>
            IF streak[c] = 3
            THEN /\ chat_history' = Append(chat_history, MaxRetriesMessage)
                 /\ ~session_active'
                 /\ pc'[c] = "final_yielded"
            ELSE /\ streak[c] < 3
                 /\ pc'[c] = "loop"
                 /\ chat_history' = chat_history
                 /\ session_active' = session_active

NothingAfterFinalYield ==
    \A c \in Consumers :
        /\ pc[c] = "final_yielded" =>
              pc'[c] \in {"final_yielded", "done"} /\ chat_history' = chat_history
        /\ pc[c] = "done" => pc'[c] = "done" /\ chat_history' = chat_history

StoppedForCause ==
    \A c \in Consumers :
        pc[c] = "done" =>
            \/ streak[c] = 3 /\ Last(chat_history) = MaxRetriesMessage /\ ~session_active
            \/ streak[c] < 3 /\ ClosingMessage \in Range(chat_history) /\ ~session_active

C4_RetryBudget ==
    /\ [][AfterFaultStep]_vars
    /\ [][NothingAfterFinalYield]_vars
    /\ []StoppedForCause

C4_Witness ==
    /\ pc[1] = "done"
    /\ streak[1] = 3
    /\ Last(chat_history) = MaxRetriesMessage
    /\ ~session_active

\* C5: after 3 cycles in a row in which a fault escaped the pipeline
\* (workflow.invoke raised), the generator is not at the head of its loop
\* with the loop condition true: the session was forced inactive or the
\* retry budget is used up.
C5_EscapedFaultsStop ==
    \A c \in Consumers :
        escaped[c] >= 3 /\ pc[c] = "loop" =>
            ~(session_active /\ retry_count[c] < max_retries)

\* C6: in a turn whose transcribed input contains "goodbye" in any case the
\* Turn State's session_active is FALSE from the transcribe stage on; when
\* the turn ends the manager's session_active becomes FALSE and the closing
\* message is appended; the generator starts no turn after that.
SaysGoodbye(text) == \E form \in {"goodbye", "Goodbye", "GOODBYE"} : Contains(text, form)

InTurn(c) == pc[c] \in Stages \cup {END}

GoodbyeEndsTurnState ==
    \A c \in Consumers :
        InTurn(c) /\ "transcribe" \in Range(trace[c])
                  /\ SaysGoodbye(state[c].current_user_input)
            => ~state[c].session_active

GoodbyeEndsSession ==
    \A c \in Consumers :
        pc[c] = END /\ pc'[c] # END /\ SaysGoodbye(state[c].current_user_input) =>
            /\ ~session_active'
            /\ chat_history' # <<>>
            /\ Last(chat_history') = ClosingMessage
            /\ pc'[c] = "yield"

NoTurnAfterGoodbye ==
    \A c \in Consumers :
        ClosingMessage \in Range(chat_history) =>
            ~InTurn(c) /\ pc[c] \notin {"check", "set", "invoke"}

C6_Goodbye ==
    /\ []GoodbyeEndsTurnState
    /\ [][GoodbyeEndsSession]_vars
    /\ []NoTurnAfterGoodbye

C6_Witness ==
    /\ pc[1] = "done"
    /\ ~session_active
    /\ Last(chat_history) = ClosingMessage

\* C7: the transcript never gets shorter from one step of a session to the
\* next, and a turn appends at most one (user, response) pair, at most one
\* notice of the speech stage, at most one System "Error: ..." entry and at
\* most one closing message, and nothing else: 3 entries at most.
IsSystemEntry(entry) == entry[1] = "System"
IsPair(entry) == entry[1] # "System"
IsSpeechNotice(entry) == entry \in {FallbackNotice, NoAudioNotice}
IsClosing(entry) == entry = ClosingMessage

\* what the turn of c that ends in this step appended to the transcript
Appended(c) == Suffix(chat_history, chat_history')

TurnEnds(c) == pc[c] = END /\ pc'[c] # END

NeverShorter == Len(chat_history') >= Len(chat_history)

TurnAppendsLittle ==
    \A c \in Consumers :
        TurnEnds(c) =>
            /\ IsPrefix(chat_history, chat_history')
            /\ Count(Appended(c), IsPair) <= 1
            /\ Count(Appended(c), IsSpeechNotice) <= 1
            /\ Count(Appended(c), IsErrorEntry) <= 1
            /\ Count(Appended(c), IsClosing) <= 1
            /\ \A i \in 1..Len(Appended(c)) :
                  \/ IsPair(Appended(c)[i])
                  \/ IsSpeechNotice(Appended(c)[i])
                  \/ IsErrorEntry(Appended(c)[i])
                  \/ IsClosing(Appended(c)[i])
            /\ Len(Appended(c)) <= 3

TurnAppendsPairAndOneEntry ==
    \A c \in Consumers :
        TurnEnds(c) =>
            /\ IsPrefix(chat_history, chat_history')
            /\ Count(Appended(c), IsPair) <= 1
            /\ Count(Appended(c), IsSystemEntry) <= 1

C8_NeedsToolIffIntent ==
    \A c \in Consumers :
        InTurn(c) /\ trace[c] # <<>> /\ Last(trace[c]) = "intent_detection" =>
            (state[c].needs_tool_execution <=> state[c].detected_intent # None)

C8_Witness ==
    /\ InTurn(1)
    /\ trace[1] # <<>>
    /\ Last(trace[1]) = "intent_detection"
    /\ state[1].detected_intent = "weather"
    /\ state[1].needs_tool_execution

\* the calls the text_to_speech stage of c makes in this step
SpeechStep(c) == pc[c] = "text_to_speech" /\ pc'[c] # "text_to_speech"
SpeechCalls(c) == Suffix(io[c], io'[c])

HasMarker(message) ==
    \E marker \in {"quota", "limit", "credits", "exceeded", "401", "unauthorized"} :
        Contains(Lower(message), marker)

PrimaryFailed(c) ==
    /\ SpeechStep(c)
    /\ SpeechCalls(c) # <<>>
    /\ SpeechCalls(c)[1].call = "text_to_speech_with_eleven_lab"
    /\ SpeechCalls(c)[1].out.raised

\* C9: when the primary synthesizer fails with a message that holds a quota
\* or authorization marker, the stage calls the secondary synthesizer, once;
\* when that succeeds the stage appends the fallback notice, once, and
\* leaves error_message unset.
FallbackOnQuota ==
    \A c \in Consumers :
        PrimaryFailed(c) /\ HasMarker(SpeechCalls(c)[1].out.value) =>
            /\ Len(SpeechCalls(c)) = 2
            /\ SpeechCalls(c)[2].call = "text_to_speech_with_gtts"
            /\ SpeechCalls(c)[2].arg = state[c].current_response
            /\ ~SpeechCalls(c)[2].out.raised =>
                  /\ state'[c].chat_history = Append(state[c].chat_history, FallbackNotice)
                  /\ state'[c].error_message = None
                  /\ pc'[c] = END

C9_QuotaFallback == [][FallbackOnQuota]_vars

C9_Witness ==
    /\ pc[1] = END
    /\ Last(trace[1]) = "text_to_speech"
    /\ Len(io[1]) >= 2
    /\ io[1][Len(io[1]) - 1].out = Raised("Quota Exceeded")
    /\ Last(io[1]).call = "text_to_speech_with_gtts"
    /\ ~Last(io[1]).out.raised
    /\ Last(state[1].chat_history) = FallbackNotice
    /\ state[1].error_message = None

\* C10: when the primary synthesizer fails with a message that holds no
\* quota or authorization marker, the stage does not call the secondary
\* synthesizer, sets error_message to the failure, and appends nothing to
\* chat_history.
NoFallbackOtherwise ==
    \A c \in Consumers :
        PrimaryFailed(c) /\ ~HasMarker(SpeechCalls(c)[1].out.value) =>
            /\ Len(SpeechCalls(c)) = 1
            /\ state'[c].error_message = "TTS error: " \o SpeechCalls(c)[1].out.value
            /\ state'[c].chat_history = state[c].chat_history

C10_NoFallback == [][NoFallbackOtherwise]_vars

C10_Witness ==
    /\ pc[1] = "error_handler"
    /\ Last(trace[1]) = "text_to_speech"
    /\ Last(io[1]).call = "text_to_speech_with_eleven_lab"
    /\ Last(io[1]).out = Raised("Connection reset")
    /\ state[1].error_message = "TTS error: Connection reset"
    /\ FallbackNotice \notin Range(state[1].chat_history)

\* C11: a call of process_audio_cycle in which workflow.invoke raises returns
\* to its caller (the generator goes on to its yield) with exactly one
\* System error entry appended to the manager's chat_history, is_processing
\* released and session_active as it was.
IsWorkflowError(entry) ==
    /\ entry[1] = "System"
    /\ Len(entry[2]) >= 16
    /\ SubSeq(entry[2], 1, 16) = "Workflow Error: "

EscapedFaultStep(c) == pc[c] = "invoke" /\ pc'[c] # "invoke" /\ escaped'[c] = escaped[c] + 1

EscapedFaultCaught ==
    \A c \in Consumers :
        /\ pc[c] = "invoke" => pc'[c] \in {"invoke", "record_audio", "yield"}
        /\ EscapedFaultStep(c) =>
              /\ pc'[c] = "yield"
              /\ Len(chat_history') = Len(chat_history) + 1
              /\ IsPrefix(chat_history, chat_history')
              /\ IsWorkflowError(Last(chat_history'))
              /\ ~is_processing'
              /\ session_active' = session_active

C11_NeverPropagates == [][EscapedFaultCaught]_vars

C11_Witness ==
    /\ pc[1] = "yield"
    /\ escaped[1] = 1
    /\ chat_history # <<>>
    /\ IsWorkflowError(Last(chat_history))
    /\ ~is_processing
    /\ session_active

\* C12: while the manager's tools_enabled is false no turn calls
\* execute_tool: a step of a turn taken with the flag off adds no
\* execute_tool call to what the turn has called, and the turn goes from
\* intent_detection to ai_response.
ToolCalls(calls) == Count(calls, LAMBDA call : call.call = "execute_tool")

ToolsGatedStep ==
    \A c \in Consumers :
        ~tools_enabled =>
            /\ ToolCalls(io'[c]) <= ToolCalls(io[c])
            /\ pc[c] = "intent_detection" => pc'[c] # "tool_execution"

C12_ToolsGated == [][ToolsGatedStep]_vars

\* C13: clear_chat_history is idempotent. Every call leaves chat_history
\* empty and session_active true (with conversation_count 0 and last_intent
\* None) and touches nothing else of the driver; a call made in the state
\* a call leaves, as the second of two consecutive calls is, changes no field
\* of the driver.
Cleared ==
    /\ chat_history = <<>>
    /\ session_active
    /\ conversation_count = 0
    /\ last_intent = None

ClearStep == commands' = Append(commands, "clear_chat_history")

ClearIsIdempotent ==
    ClearStep =>
        /\ Cleared'
        /\ UNCHANGED <<is_processing, tools_enabled>>
        /\ Cleared => UNCHANGED manager

C13_ClearIdempotent == [][ClearIsIdempotent]_vars

\* two calls in a row, after a goodbye turn ended the session and its generator
C13_Witness ==
    /\ commands = <<"clear_chat_history", "clear_chat_history">>
    /\ pc[1] = "done"
    /\ Cleared

\* C14: the Intent Classifier returns the first label, in the order vision,
\* weather, search, news, time, system, calculator, files, one of whose
\* patterns is found in the lower-cased text, and None when no label has
\* one; a text with patterns of two labels gets the one declared first.
DeclaredLabels ==
    <<"vision", "weather", "search", "news", "time", "system", "calculator", "files">>

LabelsFound(text) ==
    {i \in 1..Len(DeclaredLabels) : IntentMatches(DeclaredLabels[i], text)}

IsFirstDeclared(label, text) ==
    \E found \in {LabelsFound(text)} :
        IF found = {} THEN label = None
        ELSE \E i \in found : label = DeclaredLabels[i] /\ \A j \in found : i <= j

Classified(c) == "intent_detection" \in Range(trace[c]) /\ state[c].current_user_input # ""

C14_FirstDeclaredLabel ==
    \A c \in Consumers :
        Classified(c) =>
            IsFirstDeclared(state[c].detected_intent, Lower(state[c].current_user_input))

\* a text with the words of weather, search and news
C14_Witness ==
    /\ Classified(1)
    /\ Cardinality(LabelsFound(Lower(state[1].current_user_input))) = 3
    /\ state[1].detected_intent = "weather"

\* C15: in a turn whose recording fails, error_message is set at
\* record_audio, no stage after it calls a collaborator (transcribe,
\* intent_detection and tool_execution do nothing, ai_response and
\* text_to_speech produce nothing), error_handler appends exactly one System
\* entry to the turn's chat_history, and the turn ends with error_message
\* None and processing_audio and needs_tool_execution false.
RecordingFailed(c) ==
    /\ io[c] # <<>>
    /\ io[c][1].call = "record_audio"
    /\ io[c][1].out = record_audio("timeout")

C15_RecordingFailure ==
    \A c \in Consumers :
        RecordingFailed(c) =>
            /\ setters[c] # <<>> /\ setters[c][1] = "record_audio"
            /\ Len(io[c]) = 1
            /\ state[c].current_user_input = ""
            /\ state[c].detected_intent = None
            /\ state[c].current_response = ""
            /\ pc[c] = END =>
                  /\ trace[c] = <<"record_audio", "transcribe", "intent_detection",
                                  "error_handler">>
                  /\ Len(state[c].chat_history) = Len(base[c]) + 1
                  /\ IsPrefix(base[c], state[c].chat_history)
                  /\ IsSystemEntry(Last(state[c].chat_history))
                  /\ state[c].error_message = None
                  /\ ~state[c].processing_audio
                  /\ ~state[c].needs_tool_execution

\* C16: once the manager's session_active is false, the only operations that
\* set it back to true are restart_session and clear_chat_history; no turn,
\* no generator step, toggle_tools and execute_manual_tool never do.
Reactivated == ~session_active /\ session_active'

Issued(command) == commands' = Append(commands, command)

ReactivatedByRestartOrClear ==
    Reactivated => Issued("restart_session") \/ Issued("clear_chat_history")

C16_NoReactivation == [][ReactivatedByRestartOrClear]_vars

\* a goodbye turn ended the session and its generator; clear_chat_history,
\* the one command issued, made the session active again
C16_Witness ==
    /\ pc[1] = "done"
    /\ commands = <<"clear_chat_history">>
    /\ session_active

\* C16 as stated: restart_session is the only operation that sets
\* session_active back to true.
ReactivatedByRestart == Reactivated => Issued("restart_session")

C16_AsStated == [][ReactivatedByRestart]_vars

\* C17: a call of process_audio_cycle that finds a turn in flight (the flag
\* is_processing set) returns at once: its caller is at the yield with the
\* history as it is, no field of the manager has changed, no Turn State was
\* made and no stage run, and nothing of the call is left to run later.
RefusedStep(c) == pc[c] = "check" /\ is_processing /\ pc'[c] # "check"

RefusedCallChangesNothing ==
    \A c \in Consumers :
        RefusedStep(c) =>
            /\ pc'[c] = "yield"
            /\ \A other \in Consumers \ {c} : pc'[other] = pc[other]
            /\ UNCHANGED <<manager, turn>>

C17_ReentrantCallRefused == [][RefusedCallChangesNothing]_vars

\* consumer 1 is recording, consumer 2 called meanwhile and is back at its
\* yield: no turn has ended (the history is the welcome message alone) and
\* no fault escaped
C17_Witness ==
    /\ pc[1] = "record_audio"
    /\ pc[2] = "yield"
    /\ is_processing
    /\ cycles = 2
    /\ escaped[2] = 0
    /\ commands = <<>>
    /\ chat_history = <<WelcomeMessage>>

\* C18: execute_tool never raises, whatever the tool name and the keyword
\* arguments: every call a turn makes returns a text and the tool_execution
\* stage never has an exception to handle; a manual call appends its result
\* as a "Tool: <name>" entry, never the System entry of the handler around
\* it, and touches nothing else of the session; an unknown tool name and a
\* tool that fails inside are answered with a text saying so.
StartsWith(text, prefix) ==
    Len(text) >= Len(prefix) /\ SubSeq(text, 1, Len(prefix)) = prefix

ToolCallsReturn(calls) ==
    \A i \in 1..Len(calls) :
        calls[i].call = "execute_tool" =>
            /\ ~calls[i].out.raised
            /\ calls[i].out.value # ""
            /\ calls[i].arg[1] \notin RegisteredTools =>
                   StartsWith(calls[i].out.value, "Unknown tool '")

ManualCallReturns ==
    Issued("execute_manual_tool") =>
        /\ Len(chat_history') = Len(chat_history) + 1
        /\ IsPrefix(chat_history, chat_history')
        /\ StartsWith(Last(chat_history')[1], "Tool: ")
        /\ Last(chat_history')[2] # ""
        /\ Last(chat_history')[1] = "Tool: Teleport" =>
               StartsWith(Last(chat_history')[2], "Unknown tool 'teleport'")
        /\ UNCHANGED <<is_processing, session_active, tools_enabled, last_intent,
                       conversation_count, pc, turn>>

ExecuteToolReturns ==
    /\ \A c \in Consumers :
          /\ ToolCallsReturn(io'[c])
          /\ "tool_execution" \notin Range(setters'[c])
    /\ ManualCallReturns

C18_ExecuteToolNeverRaises == [][ExecuteToolReturns]_vars

\* a turn whose tool failed inside went on to ask the agent with the text of
\* the failure as the tool's result, and a manual call named an unknown tool
C18_Witness ==
    /\ "ai_response" \in Range(trace[1])
    /\ Contains(state[1].tool_results, "Tool result: Tool execution error: ")
    /\ \E i \in 1..Len(base[1]) :
           /\ base[1][i][1] = "Tool: Teleport"
           /\ StartsWith(base[1][i][2], "Unknown tool 'teleport'")

\* C19: a turn whose input is transcribed as "What's the weather in Paris?"
\* is classified weather, calls the weather tool with the city "Paris", runs
\* tool_execution before ai_response, asks the agent with a prompt that
\* embeds the tool's result, and appends exactly one (user, response) pair.
AskedAboutParis(c) == state[c].current_user_input = "What's the weather in Paris?"

CallsOf(calls, name) == SelectSeq(calls, LAMBDA call : call.call = name)

C19_WeatherInParis ==
    \A c \in Consumers :
        AskedAboutParis(c) =>
            /\ "intent_detection" \in Range(trace[c]) =>
                   state[c].detected_intent = "weather"
            /\ \A i \in 1..Len(io[c]) :
                   io[c][i].call = "execute_tool" =>
                       /\ io[c][i].arg[1] = "weather"
                       /\ io[c][i].arg[2].city = "Paris"
            /\ \A i \in 1..Len(io[c]) :
                   io[c][i].call = "ask_agent" =>
                       /\ \E j \in 1..Len(trace[c]) : trace[c][j] = "tool_execution"
                       /\ Len(CallsOf(io[c], "execute_tool")) = 1
                       /\ Contains(io[c][i].arg, CallsOf(io[c], "execute_tool")[1].out.value)
            /\ (pc[c] = END /\ state[c].current_response # "") =>
                   /\ Count(Suffix(base[c], state[c].chat_history), IsPair) = 1
                   /\ <<state[c].current_user_input, state[c].current_response>>
                          \in Range(Suffix(base[c], state[c].chat_history))

\* C20: for the calculator intent the expression handed to the tool is the
\* longest contiguous run of digits, operators, dots, parentheses and
\* whitespace of the input, trimmed, and the trimmed input itself when the
\* input has no such character.
ExpressionChars == Digit \cup {"+", "-", "*", "/", ".", "(", ")"} \cup Whitespace

IsRun(text, i, j) ==
    i <= j /\ \A k \in i..j : SubSeq(text, k, k) \in ExpressionChars

RunsOf(text) == {r \in (1..Len(text)) \X (1..Len(text)) : IsRun(text, r[1], r[2])}

IsLongestRun(expression, text) ==
    \E runs \in {RunsOf(text)} :
        IF runs = {} THEN expression = Strip(text)
        ELSE \E r \in runs :
                 /\ \A q \in runs : q[2] - q[1] <= r[2] - r[1]
                 /\ expression = Strip(SubSeq(text, r[1], r[2]))

C20_LongestRun ==
    \A c \in Consumers :
        \A i \in 1..Len(io[c]) :
            (io[c][i].call = "execute_tool" /\ io[c][i].arg[1] = "calculator") =>
                IsLongestRun(io[c][i].arg[2].expression, state[c].current_user_input)

\* C21: in a turn at most one stage sets error_message before error_handler
\* runs, and a stage other than error_handler that runs while error_message
\* is set does nothing: it calls no collaborator (no transcription, no tool,
\* no model, no synthesizer) and leaves the Turn State, its chat_history
\* included, as it is.
StageRuns(c) == Len(trace'[c]) = Len(trace[c]) + 1

ErrorPending(c) == pc[c] \in Stages /\ state[c].error_message # None

NothingAfterError ==
    \A c \in Consumers :
        /\ (StageRuns(c) /\ ErrorPending(c) /\ pc[c] # "error_handler") =>
               /\ io'[c] = io[c]
               /\ state'[c] = state[c]
        /\ Len(setters'[c]) <= 1

C21_OneErrorNoEffect == [][NothingAfterError]_vars

\* the model call failed, text_to_speech ran after it and did nothing, and
\* the turn is about to run error_handler
C21_Witness ==
    /\ pc[1] = "error_handler"
    /\ setters[1] = <<"ai_response">>
    /\ Last(trace[1]) = "text_to_speech"
    /\ Last(io[1]).call = "ask_agent"

\* C22: the stage that follows intent_detection is error_handler when
\* error_message is set, needs_tool_execution true or not; otherwise
\* tool_execution when needs_tool_execution is true; otherwise ai_response.
AfterIntentDetection(c) == pc[c] = "intent_detection" /\ StageRuns(c)

BranchA ==
    \A c \in Consumers :
        AfterIntentDetection(c) =>
            pc'[c] = IF state'[c].error_message # None THEN "error_handler"
                     ELSE IF state'[c].needs_tool_execution THEN "tool_execution"
                     ELSE "ai_response"

C22_BranchA == [][BranchA]_vars

\* intent_detection ran with an error pending and a tool asked for
C22_Witness ==
    /\ trace[1] = <<"intent_detection">>
    /\ state[1].error_message # None
    /\ state[1].needs_tool_execution
    /\ pc[1] = "error_handler"

\* C23: after text_to_speech the turn ends, without error_handler, when the
\* Turn State's session_active is false, error_message set or not; otherwise
\* the next stage is error_handler when error_message is set; otherwise the
\* turn ends.
AfterTextToSpeech(c) == pc[c] = "text_to_speech" /\ StageRuns(c)

BranchB ==
    \A c \in Consumers :
        AfterTextToSpeech(c) =>
            pc'[c] = IF ~state'[c].session_active THEN END
                     ELSE IF state'[c].error_message # None THEN "error_handler"
                     ELSE END

C23_BranchB == [][BranchB]_vars

\* text_to_speech ran in an ended session with an error pending, and the
\* turn is over with the error still there
C23_Witness ==
    /\ trace[1] = <<"text_to_speech">>
    /\ ~state[1].session_active
    /\ state[1].error_message # None
    /\ pc[1] = END

\* C24: a turn calls transcribe_audio only after its own recording was made
\* and saved: processing_audio is true only in a turn whose record_audio
\* call recorded, and no transcription is asked for after a recording that
\* failed.
RecordingSucceeded(c) ==
    /\ io[c] # <<>>
    /\ io[c][1].call = "record_audio"
    /\ io[c][1].out = record_audio("speech")

C24_TranscribeOnlyRecorded ==
    \A c \in Consumers :
        /\ (pc[c] \in Stages \cup {END} /\ state[c].processing_audio) =>
               RecordingSucceeded(c)
        /\ (\E i \in 1..Len(io[c]) : io[c][i].call = "transcribe_audio") =>
               RecordingSucceeded(c)

\* C25: error_handler runs at most once in a turn and the turn ends after
\* it; it appends exactly one ("System", "Error: <error_message>") entry to
\* the Turn State's chat_history, sets error_message to None and
\* processing_audio and needs_tool_execution to false, leaves every other
\* field of the Turn State as it is and calls no collaborator.
ErrorHandlerRuns(c) == pc[c] = "error_handler" /\ StageRuns(c)

Handled(s) ==
    [s EXCEPT !.chat_history =
                  Append(@, <<"System",
                              "Error: " \o (IF s.error_message = None THEN "None"
                                            ELSE s.error_message)>>),
              !.error_message = None,
              !.processing_audio = FALSE,
              !.needs_tool_execution = FALSE]

ErrorHandlerFrame ==
    \A c \in Consumers :
        ErrorHandlerRuns(c) =>
            /\ "error_handler" \notin Range(trace[c])
            /\ pc'[c] = END
            /\ state'[c] = Handled(state[c])
            /\ io'[c] = io[c]

C25_ErrorHandler == [][ErrorHandlerFrame]_vars

\* a whole turn, from the recording on, ended by error_handler after the
\* model call failed: input and intent are still in the Turn State
C25_Witness ==
    /\ pc[1] = END
    /\ trace[1][1] = "record_audio"
    /\ Last(trace[1]) = "error_handler"
    /\ setters[1] = <<"ai_response">>
    /\ state[1].current_user_input = "What's the weather in Paris?"
    /\ state[1].detected_intent = "weather"
    /\ Last(state[1].chat_history) = <<"System", "Error: AI response error: model overloaded">>

\* C26: ai_response asks the model only when current_user_input is not
\* empty and the Turn State's session_active is true, and does nothing
\* otherwise; when the model answers it sets current_response to the answer
\* and appends exactly one (current_user_input, current_response) pair to
\* chat_history; when the call fails it sets error_message, appends nothing
\* and leaves current_response empty, and the text_to_speech stage that
\* follows calls no synthesizer.
AiResponseRuns(c) == pc[c] = "ai_response" /\ StageRuns(c)

AiResponseActs(c) ==
    LET before == state[c]
        after == state'[c]
    IN  IF before.current_user_input # "" /\ before.session_active
        THEN /\ Len(io'[c]) = Len(io[c]) + 1
             /\ Last(io'[c]).call = "ask_agent"
             /\ IF Last(io'[c]).out.raised
                THEN /\ after.error_message # None
                     /\ after.chat_history = before.chat_history
                     /\ after.current_response = ""
                ELSE /\ after.current_response = Last(io'[c]).out.value
                     /\ after.chat_history =
                            Append(before.chat_history,
                                   <<before.current_user_input, after.current_response>>)
                     /\ after.error_message = before.error_message
        ELSE /\ io'[c] = io[c]
             /\ after = before

SilentAfterFailure(c) ==
    (AfterTextToSpeech(c) /\ setters[c] = <<"ai_response">>) =>
        /\ io'[c] = io[c]
        /\ state'[c] = state[c]

AiResponseContract ==
    \A c \in Consumers :
        /\ AiResponseRuns(c) => AiResponseActs(c)
        /\ SilentAfterFailure(c)

C26_AiResponse == [][AiResponseContract]_vars

\* the model call has just failed: no pair, no response, the error pending
C26_Witness ==
    /\ pc[1] = "text_to_speech"
    /\ setters[1] = <<"ai_response">>
    /\ Last(io[1]).out.raised
    /\ state[1].current_response = ""
    /\ state[1].chat_history = base[1]

\* C27: the stage after tool_execution is ai_response, whether the tool
\* gave its result, gave the text of a failure, or the intent has no tool;
\* tool_execution never sets error_message; for an intent without a tool it
\* calls nothing and stores in tool_results a text saying that the intent
\* was detected and its tool execution is not implemented.
ToolExecutionRuns(c) == pc[c] = "tool_execution" /\ StageRuns(c)

HasNoTool(s) ==
    /\ s.detected_intent \notin {None, ""}
    /\ s.detected_intent \notin {DeclaredLabels[i] : i \in 1..Len(DeclaredLabels)}
    /\ s.current_user_input # ""

ToolExecutionGoesOn ==
    \A c \in Consumers :
        ToolExecutionRuns(c) =>
            /\ pc'[c] = "ai_response"
            /\ state'[c].error_message = state[c].error_message
            /\ HasNoTool(state[c]) =>
                   /\ io'[c] = io[c]
                   /\ Contains(state'[c].tool_results,
                               "Intent '" \o state[c].detected_intent
                                   \o "' detected but tool execution not implemented")

C27_ToolThenResponse == [][ToolExecutionGoesOn]_vars

\* tool_execution ran on an intent without a tool and ai_response is next
C27_Witness ==
    /\ Last(<<"">> \o trace[1]) = "tool_execution"
    /\ pc[1] = "ai_response"
    /\ state[1].detected_intent = "reminder"
    /\ state[1].error_message = None
    /\ Contains(state[1].tool_results, "not implemented")

\* C28: when the primary synthesizer fails with a quota or authorization
\* marker and the secondary fails too, text_to_speech sets error_message and
\* appends the audio-unavailable notice, once; the (user, response) pair the
\* turn appended stays in chat_history and session_active stays true; when
\* the turn ends the pair and the one notice are in the manager's history
\* and the session is still active.
BothFailed(c) ==
    /\ PrimaryFailed(c)
    /\ HasMarker(SpeechCalls(c)[1].out.value)
    /\ Len(SpeechCalls(c)) = 2
    /\ SpeechCalls(c)[2].out.raised

ThePair(s) == <<s.current_user_input, s.current_response>>

NoticesIn(history) == Count(history, LAMBDA entry : entry = NoAudioNotice)

TextOnly ==
    \A c \in Consumers :
        /\ BothFailed(c) =>
               /\ StartsWith(state'[c].error_message, "TTS error: Both TTS services failed")
               /\ state'[c].chat_history = Append(state[c].chat_history, NoAudioNotice)
               /\ Last(state[c].chat_history) = ThePair(state[c])
               /\ state'[c].session_active
               /\ pc'[c] = "error_handler"
        /\ (TurnEnds(c) /\ NoAudioNotice \in Range(Suffix(base[c], state[c].chat_history))) =>
               /\ NoticesIn(Suffix(base[c], chat_history')) = 1
               /\ ThePair(state[c]) \in Range(Suffix(base[c], chat_history'))
               /\ session_active' = session_active
               /\ session_active

C28_BothSynthesizersFail == [][TextOnly]_vars

\* the turn in which both synthesizers failed is over and the generator is
\* back at the head of its loop, the session active
C28_Witness ==
    /\ pc[1] = "loop"
    /\ session_active
    /\ Len(chat_history) >= 3
    /\ chat_history[Len(chat_history) - 1] = NoAudioNotice
    /\ IsPair(chat_history[Len(chat_history) - 2])
    /\ IsErrorEntry(Last(chat_history))

\* C29: with the operations of the driver executed one at a time, every
\* operation other than clear_chat_history and restart_session (a call of
\* process_audio_cycle, toggle_tools, execute_manual_tool,
\* export_chat_history) leaves the history it found as a prefix of the
\* history it leaves: no entry is removed, moved or changed, and what an
\* operation appends comes after everything appended before it.
Truncating == Issued("clear_chat_history") \/ Issued("restart_session")

OnlyGrows == ~Truncating => IsPrefix(chat_history, chat_history')

C29_AppendOnly == [][OnlyGrows]_vars

\* welcome, a turn's pair, a manual tool's result, the next turn's pair: the
\* entries in the order of the operations
C29_Witness ==
    /\ commands = <<"execute_manual_tool">>
    /\ Len(chat_history) = 4
    /\ chat_history[1] = WelcomeMessage
    /\ IsPair(chat_history[2])
    /\ chat_history[3][1] = "Tool: Time"
    /\ IsPair(chat_history[4])

\* C30: what clear_chat_history, toggle_tools and execute_manual_tool did to
\* the history while a turn was in flight is still there when the turn
\* completes: the history the turn leaves is the history it finds at its
\* completion followed by the entries the turn itself produced, so that no
\* entry a command appended is dropped and no entry a clear removed is back.
ProducedByTurn(c) == Suffix(base[c], state[c].chat_history)

NoRestart == "restart_session" \notin Range(commands)

CompletionKeepsCommands ==
    \A c \in Consumers :
        (TurnEnds(c) /\ NoRestart) =>
            /\ IsPrefix(chat_history, chat_history')
            /\ \/ Suffix(chat_history, chat_history') = ProducedByTurn(c)
               \/ Suffix(chat_history, chat_history')
                      = Append(ProducedByTurn(c), ClosingMessage)

C30_CommandsSurviveTurn == [][CompletionKeepsCommands]_vars

\* C31: every turn starts from a fresh Turn State: no messages, empty
\* current_user_input and current_response, error_message None,
\* session_active true, processing_audio false, detected_intent None,
\* tool_results None, needs_tool_execution false, and chat_history equal to
\* the manager's history at that moment; nothing else of an earlier turn is
\* in it, and nothing has been run or called yet.
TurnStarts(c) == pc[c] = "invoke" /\ pc'[c] = "record_audio"

IsFresh(s, history) ==
    /\ s.messages = <<>>
    /\ s.current_user_input = ""
    /\ s.current_response = ""
    /\ s.error_message = None
    /\ s.session_active = TRUE
    /\ s.processing_audio = FALSE
    /\ s.detected_intent = None
    /\ s.tool_results = None
    /\ s.needs_tool_execution = FALSE
    /\ s.chat_history = history

StartsFresh ==
    \A c \in Consumers :
        TurnStarts(c) =>
            /\ IsFresh(state'[c], chat_history)
            /\ trace'[c] = <<>>
            /\ io'[c] = <<>>
            /\ UNCHANGED manager

C31_FreshTurnState == [][StartsFresh]_vars

\* the second turn of a session is about to record: the turn before it
\* detected an intent and left a pair, and of these only the history is in
\* the new Turn State
C31_Witness ==
    /\ pc[1] = "record_audio"
    /\ cycles = 2
    /\ last_intent = "weather"
    /\ \E i \in 1..Len(chat_history) : IsPair(chat_history[i])
    /\ IsFresh(state[1], chat_history)

\* C32: an iteration of the loop that completes without an exception sets
\* the retry counter to zero, so the counter is always the number of
\* iterations in a row that raised since the last one that completed; the
\* termination message is appended only when that number is 3, whatever the
\* number of exceptions raised in the session.
IterationSucceeds(c) == pc[c] = "yield" /\ pc'[c] \in {"loop", "done"}

SuccessResets ==
    \A c \in Consumers : IterationSucceeds(c) => retry_count'[c] = 0

BudgetExhausted == MaxRetriesMessage \in Range(chat_history)

CountsOnlyTheRun ==
    /\ \A c \in Consumers :
          /\ retry_count[c] = streak[c]
          /\ pc[c] = "final_yielded" => streak[c] = max_retries
    /\ BudgetExhausted => \E c \in Consumers : streak[c] = max_retries

C32_SuccessResets ==
    /\ [][SuccessResets]_vars
    /\ []CountsOnlyTheRun

\* three exceptions were raised in the session, the third after an iteration
\* that completed: the counter is 1 and the generator goes on
C32_Witness ==
    /\ throws = 3
    /\ pc[1] = "loop"
    /\ retry_count[1] = 1
    /\ session_active
    /\ MaxRetriesMessage \notin Range(chat_history)

\* C33: while the manager's session_active is false no turn is started: no
\* call of process_audio_cycle builds a Turn State and invokes the graph,
\* and no audio is recorded.
Records(c) == pc[c] = "record_audio" /\ pc'[c] # "record_audio"

NoTurnWhileInactive ==
    \A c \in Consumers : TurnStarts(c) \/ Records(c) => session_active

C33_NoTurnWhileInactive == [][NoTurnWhileInactive]_vars

\* C34: whatever the state of the manager, a call of restart_session leaves
\* session_active true, is_processing false and a history of exactly one
\* entry, the System welcome message of the restart.
RestartResets ==
    Issued("restart_session") =>
        /\ session_active'
        /\ ~is_processing'
        /\ Len(chat_history') = 1
        /\ IsSystemEntry(chat_history'[1])
        /\ chat_history'[1] = RestartMessage

C34_RestartResets == [][RestartResets]_vars

\* the restart came while a turn was in flight, after an earlier command:
\* the flag is open and the history is the welcome message alone
C34_Witness ==
    /\ Len(commands) = 2
    /\ Last(commands) = "restart_session"
    /\ pc[1] \in Stages
    /\ session_active
    /\ ~is_processing
    /\ chat_history = <<RestartMessage>>

\* C35: a call of execute_manual_tool always completes and appends exactly
\* one entry to the history, labelled "Tool: <Name>" (or "System" for a call
\* that raised), whether the tool returns a result, fails inside, or is not
\* registered; it changes neither session_active, is_processing nor
\* tools_enabled.
ManualLabels == {"Tool: " \o Title(tool_name) : tool_name \in ManualTools} \cup {"System"}

ManualEntry(entry) == entry[1] \in ManualLabels /\ entry[2] # ""

ManualCallAppendsOne ==
    Issued("execute_manual_tool") =>
        /\ Len(chat_history') = Len(chat_history) + 1
        /\ SubSeq(chat_history', 1, Len(chat_history)) = chat_history
        /\ ManualEntry(Last(chat_history'))
        /\ UNCHANGED <<session_active, is_processing, tools_enabled>>

ManualCallCompletes == Len(commands) < CmdMaxCommands => ENABLED execute_manual_tool

C35_ManualToolFrame ==
    /\ [][ManualCallAppendsOne]_vars
    /\ []ManualCallCompletes

\* two manual calls made while a turn was in flight, one of a tool that
\* failed inside and one of an unknown tool: two entries, the turn's flag
\* still set
C35_Witness ==
    /\ commands = <<"execute_manual_tool", "execute_manual_tool">>
    /\ pc[1] \in Stages
    /\ is_processing
    /\ Len(chat_history) >= 2
    /\ chat_history[Len(chat_history) - 1] =
           <<"Tool: Time", "Tool execution error: clock unavailable">>
    /\ Last(chat_history)[1] = "Tool: Teleport"

\* C36: in a turn classified files, the directory the file-listing tool
\* lists is the path extracted from the utterance; the current directory is
\* listed only when no path was extracted.
ListingOf(directory) == "Files in '" \o directory \o "':"

IsListing(text) == Contains(text, "Files in '")

ListsExtractedPath(call) ==
    (call.call = "execute_tool" /\ call.arg[1] = "files" /\ IsListing(call.out.value)) =>
        IF "path" \in DOMAIN call.arg[2]
        THEN StartsWith(call.out.value, ListingOf(call.arg[2].path))
        ELSE StartsWith(call.out.value, ListingOf("."))

C36_ListsExtractedPath ==
    \A c \in Consumers : \A i \in 1..Len(io[c]) : ListsExtractedPath(io[c][i])

\* C37: in every Turn State from the end of intent_detection up to the
\* error handler, needs_tool_execution is TRUE exactly when detected_intent
\* is not None; once the error handler has run, needs_tool_execution is
\* FALSE whatever the intent detected.
IntentDetected(c) == InTurn(c) /\ "intent_detection" \in Range(trace[c])

ErrorHandled(c) == InTurn(c) /\ "error_handler" \in Range(trace[c])

FlagAgrees(c) == state[c].needs_tool_execution <=> state[c].detected_intent # None

C37_FlagFollowsIntent ==
    \A c \in Consumers :
        /\ IntentDetected(c) /\ ~ErrorHandled(c) => FlagAgrees(c)
        /\ ErrorHandled(c) => ~state[c].needs_tool_execution

\* a weather turn whose tool ran and whose model call failed: after the
\* error handler the intent is still weather and the flag is cleared
C37_Witness ==
    /\ pc[1] = END
    /\ "tool_execution" \in Range(trace[1])
    /\ Last(trace[1]) = "error_handler"
    /\ state[1].detected_intent = "weather"
    /\ ~state[1].needs_tool_execution

\* C37 as stated: the equivalence holds up to the end of the turn, also
\* after the error handler has run
C37_AsStated == \A c \in Consumers : IntentDetected(c) => FlagAgrees(c)

\* C38: in a turn whose transcript contains "goodbye" the agent is not
\* asked, no speech is synthesized, current_response stays empty and the
\* turn's stages append nothing to the history; when the turn ends, the
\* manager's history is the history the turn began with followed by the
\* closing message alone.
ResponseCalls ==
    {"ask_agent", "text_to_speech_with_eleven_lab", "text_to_speech_with_gtts"}

GoodbyeTurn(c) == InTurn(c) /\ SaysGoodbye(state[c].current_user_input)

GoodbyeTurnIsSilent ==
    \A c \in Consumers :
        GoodbyeTurn(c) =>
            /\ \A i \in 1..Len(io[c]) : io[c][i].call \notin ResponseCalls
            /\ state[c].current_response = ""
            /\ state[c].error_message = None
            /\ ProducedByTurn(c) = <<>>

GoodbyeAddsClosingOnly ==
    \A c \in Consumers :
        TurnEnds(c) /\ GoodbyeTurn(c) =>
            chat_history' = Append(base[c], ClosingMessage)

C38_GoodbyeAddsClosingOnly ==
    /\ []GoodbyeTurnIsSilent
    /\ [][GoodbyeAddsClosingOnly]_vars

\* a turn that said goodbye and asked for the time has ended: the search
\* tool was called, the agent was not, and the history is the welcome
\* message and the closing message
C38_Witness ==
    /\ cycles = 1
    /\ last_intent = "search"
    /\ ~session_active
    /\ chat_history = <<WelcomeMessage, ClosingMessage>>
=============================================================================
